---- MODULE Spec2Model ----
(***************************************************************************)
(* A model of the scheduling and queueing core of AutoPost:                *)
(*   src/src/scheduler/queue.py       PostQueue                            *)
(*   src/src/scheduler/time_slots.py  TimeSlotManager                      *)
(*   src/src/scheduler/scheduler.py   PostScheduler                        *)
(*   src/src/storage/state.py         StateManager                         *)
(*   src/src/storage/local.py         LocalStorage                         *)
(*                                                                         *)
(* Python strings are modelled as tuples of one-character strings, so that *)
(* lower(), strip(), split(), int() and the lexicographic order of         *)
(* list.sort() are computed character by character, as Python does.        *)
(***************************************************************************)
EXTENDS Integers, Sequences, FiniteSets, TLC

VARIABLES
    fs,         \* content directory: folder name -> "absent" | "empty" | "pending"
                \*   | "posted" (moved under posted/ by mark_as_posted)
    queue,      \* PostQueue._queue: sequence of [folder, priority]
    qlast,      \* the last queue operation and what it returned
    task,       \* per publish path: [pc, folder, dequeued, outcome, signal]
    loop,       \* which publish path holds the event-loop thread ("free" if none)
    posts,      \* remote publishes made so far, in order (folder names)
    histFile,   \* the history file: [status, content], status "missing" | "ok" | "torn"
    hcount,     \* number of add_to_history calls made so far
    hgot,       \* what the last get_history call returned
    config,     \* Config: [post_times, shared]; shared: _times is that very list
    times,      \* TimeSlotManager._times
    tlast,      \* the last TimeSlotManager operation and what it returned
    running,    \* PostScheduler._running
    engine,     \* the timer engine (AsyncIOScheduler) is active
    jobs,       \* ids of the jobs registered with the timer engine
    stateFile,  \* the state file: [status, enabled, post_times], status "missing" | "ok"
    slast,      \* the last scheduler operation and how it ended
    disk,       \* the state file as written: [exists, text], text a token sequence
    save,       \* the save_state call in progress, and the last one made
    dlast,      \* the last load_state call and what it returned
    logged,     \* InstagramClient._logged_in
    session,    \* the remote session is valid
    calls,      \* remote requests of the current (or last) publish request
    attempt,    \* the publish request: [pc, outcome, authfail]
    published,  \* number of uploads the remote side accepted
    dir,        \* a content folder as iterdir() yields it: sequence of [name, is_file]
    plast,      \* the last FolderParser call and what it returned
    twin,       \* the _queue of a second PostQueue over the same directory
    uploads     \* story uploads the remote side accepted: sequence of [folder, index]

qvars == <<fs, queue, qlast>>
pvars == <<task, loop, posts>>
hvars == <<histFile, hcount, hgot>>
tvars == <<config, times, tlast>>
svars == <<running, engine, jobs, stateFile, slast>>
dvars == <<disk, save, dlast>>
avars == <<logged, session, calls, attempt, published>>
xvars == <<dir, plast, twin, uploads>>
vars == <<fs, queue, qlast, task, loop, posts, histFile, hcount, hgot,
          config, times, tlast, running, engine, jobs, stateFile, slast,
          disk, save, dlast, logged, session, calls, attempt, published,
          dir, plast, twin, uploads>>

(***************************************************************************)
(* Python strings                                                          *)
(***************************************************************************)
\* The empty string; also stands for Python's None where a name is optional.
NoName == << >>

\* Unicode code point of the characters the model uses.
Ord(c) ==
    CASE c = " " -> 32
      [] c = "+" -> 43
      [] c = "," -> 44
      [] c = "-" -> 45
      [] c = "." -> 46
      [] c = "0" -> 48
      [] c = "1" -> 49
      [] c = "2" -> 50
      [] c = "3" -> 51
      [] c = "4" -> 52
      [] c = "5" -> 53
      [] c = "6" -> 54
      [] c = "7" -> 55
      [] c = "8" -> 56
      [] c = "9" -> 57
      [] c = ":" -> 58
      [] c = "A" -> 65
      [] c = "B" -> 66
      [] c = "S" -> 83
      [] c = "_" -> 95
      [] c = "a" -> 97
      [] c = "b" -> 98
      [] c = "d" -> 100
      [] c = "e" -> 101
      [] c = "g" -> 103
      [] c = "i" -> 105
      [] c = "j" -> 106
      [] c = "l" -> 108
      [] c = "n" -> 110
      [] c = "o" -> 111
      [] c = "p" -> 112
      [] c = "r" -> 114
      [] c = "s" -> 115
      [] c = "t" -> 116
      [] c = "x" -> 120
      [] c = "y" -> 121

\* str.lower() on one character.
LowerChar(c) ==
    CASE c = "A" -> "a"
      [] c = "B" -> "b"
      [] c = "S" -> "s"
      [] OTHER -> c

\* str.lower()
Lower(s) == [i \in 1..Len(s) |-> LowerChar(s[i])]

\* s < t for Python strings: lexicographic by code point.
RECURSIVE StrLess(_, _)
StrLess(s, t) ==
    IF t = << >> THEN FALSE
    ELSE IF s = << >> THEN TRUE
    ELSE IF Ord(Head(s)) # Ord(Head(t)) THEN Ord(Head(s)) < Ord(Head(t))
    ELSE StrLess(Tail(s), Tail(t))

\* All orderings of a finite set, as sequences.
Orderings(S) ==
    {s \in [1..Cardinality(S) -> S] : \A x \in S : \E i \in 1..Cardinality(S) : s[i] = x}

\* str.strip() (the only whitespace character of the model is the blank)
RECURSIVE LStrip(_)
LStrip(s) == IF s # << >> /\ Head(s) = " " THEN LStrip(Tail(s)) ELSE s

RECURSIVE RStrip(_)
RStrip(s) ==
    IF s # << >> /\ s[Len(s)] = " " THEN RStrip(SubSeq(s, 1, Len(s) - 1)) ELSE s

Strip(s) == RStrip(LStrip(s))

\* str.split(sep) for a one-character separator
RECURSIVE Split(_, _)
Split(s, sep) ==
    IF \E i \in 1..Len(s) : s[i] = sep
    THEN LET k == CHOOSE i \in 1..Len(s) :
                    s[i] = sep /\ \A j \in 1..(i - 1) : s[j] # sep
         IN  <<SubSeq(s, 1, k - 1)>> \o Split(SubSeq(s, k + 1, Len(s)), sep)
    ELSE <<s>>

IsDigit(c) == c \in {"0", "1", "2", "3", "4", "5", "6", "7", "8", "9"}

RECURSIVE DigitsValue(_)
DigitsValue(s) ==
    IF s = << >> THEN 0
    ELSE 10 * DigitsValue(SubSeq(s, 1, Len(s) - 1)) + (Ord(s[Len(s)]) - Ord("0"))

\* int(s): blanks around, an optional sign, then digits; ok = FALSE stands
\* for ValueError.
IntOf(s) ==
    LET t    == Strip(s)
        sign == t # << >> /\ Head(t) \in {"+", "-"}
        body == IF sign THEN Tail(t) ELSE t
    IN  IF body # << >> /\ \A i \in 1..Len(body) : IsDigit(body[i])
        THEN [ok |-> TRUE,
              val |-> IF sign /\ Head(t) = "-" THEN 0 - DigitsValue(body)
                      ELSE DigitsValue(body)]
        ELSE [ok |-> FALSE, val |-> 0]

\* sorted(list of str): stable insertion by code-point order
InsertStr(x, s) ==
    LET k == Cardinality({i \in 1..Len(s) : ~StrLess(x, s[i])})
    IN  SubSeq(s, 1, k) \o <<x>> \o SubSeq(s, k + 1, Len(s))

RECURSIVE SortStrs(_)
SortStrs(s) ==
    IF s = << >> THEN << >>
    ELSE InsertStr(s[Len(s)], SortStrs(SubSeq(s, 1, Len(s) - 1)))

(***************************************************************************)
(* Bounds of the queue model                                               *)
(***************************************************************************)
\* Folder names that can exist under the content path.
Names == {<<"a">>, <<"A">>, <<"b">>}
\* Priorities passed to enqueue / set_priority are 0..MaxPriority.
MaxPriority == 1
\* move_to_front is not taken once it would go below -MaxFrontDepth.
MaxFrontDepth == 1

FsStates == {"absent", "empty", "pending"}

(***************************************************************************)
(* LocalStorage                                                            *)
(***************************************************************************)
\* Path.exists() of content_path / name
Exists(fsv, n) == fsv[n] \in {"empty", "pending"}

\* LocalStorage._is_valid_content_folder: a directory holding an image
IsValidContentFolder(fsv, n) == fsv[n] = "pending"

\* sorted(folders, key=lambda f: f.name.lower()): stable insertion of one name
InsertName(x, s) ==
    LET k == Cardinality({i \in 1..Len(s) : ~StrLess(Lower(x), Lower(s[i]))})
    IN  SubSeq(s, 1, k) \o <<x>> \o SubSeq(s, k + 1, Len(s))

RECURSIVE SortNames(_)
SortNames(s) ==
    IF s = << >> THEN << >>
    ELSE InsertName(s[Len(s)], SortNames(SubSeq(s, 1, Len(s) - 1)))

\* LocalStorage.get_pending_folders; listing is the order iterdir() yields.
GetPendingFolders(fsv, listing) ==
    SortNames(SelectSeq(listing, LAMBDA n : IsValidContentFolder(fsv, n)))

\* The orders in which iterdir() can yield the entries of the content path.
Listings(fsv) == Orderings({n \in Names : Exists(fsv, n)})

(***************************************************************************)
(* PostQueue                                                               *)
(***************************************************************************)
Item(f, p) == [folder |-> f, priority |-> p]

Folders(q) == {q[i].folder : i \in 1..Len(q)}

\* The sort key (x.priority, x.folder_name.lower()), compared as Python tuples.
KeyLess(x, y) ==
    \/ x.priority < y.priority
    \/ x.priority = y.priority /\ StrLess(Lower(x.folder), Lower(y.folder))

\* list.sort is stable: x goes behind every element whose key is <= its own.
InsertItem(x, s) ==
    LET k == Cardinality({i \in 1..Len(s) : ~KeyLess(x, s[i])})
    IN  SubSeq(s, 1, k) \o <<x>> \o SubSeq(s, k + 1, Len(s))

\* PostQueue._sort
RECURSIVE Sort(_)
Sort(q) ==
    IF q = << >> THEN << >>
    ELSE InsertItem(q[Len(q)], Sort(SubSeq(q, 1, Len(q) - 1)))

\* Faulty variant: the loop without the "not in existing" test
RECURSIVE AppendAll(_, _, _)
AppendAll(q, folders, existing) ==
    IF folders = << >> THEN q
    ELSE AppendAll(Append(q, Item(Head(folders), 0)), Tail(folders), existing)

\* The "add new" loop of refresh: existing is computed once, before the loop.
RECURSIVE AppendNew(_, _, _)
AppendNew(q, folders, existing) ==
    IF folders = << >> THEN q
    ELSE AppendNew(IF Head(folders) \in existing THEN q
                   ELSE Append(q, Item(Head(folders), 0)),
                   Tail(folders), existing)

\* Faulty variant: refresh without its final sort
RefreshUnsorted(q, fsv, listing) ==
    LET folders == GetPendingFolders(fsv, listing)
        added   == AppendNew(q, folders, Folders(q))
    IN  SelectSeq(added, LAMBDA it : Exists(fsv, it.folder))

\* Faulty variant: refresh dropping every item whose folder is not pending
RefreshKeepingPending(q, fsv, listing) ==
    LET folders == GetPendingFolders(fsv, listing)
        added   == AppendNew(q, folders, Folders(q))
    IN  Sort(SelectSeq(added, LAMBDA it : IsValidContentFolder(fsv, it.folder)))

\* PostQueue.refresh
RefreshQ(q, fsv, listing) ==
    LET folders == GetPendingFolders(fsv, listing)
        added   == AppendNew(q, folders, Folders(q))
        kept    == SelectSeq(added, LAMBDA it : Exists(fsv, it.folder))
    IN  Sort(kept)

\* Faulty variant: enqueue without the "already in the queue" test
EnqueueAppend(q, f, p) == Sort(Append(q, Item(f, p)))

\* PostQueue.enqueue: the first item with that folder is updated, else appended.
EnqueueQ(q, f, p) ==
    IF \E i \in 1..Len(q) : q[i].folder = f
    THEN LET k == CHOOSE i \in 1..Len(q) :
                    q[i].folder = f /\ \A j \in 1..(i - 1) : q[j].folder # f
         IN  Sort([q EXCEPT ![k].priority = p])
    ELSE Sort(Append(q, Item(f, p)))

\* PostQueue.set_priority: the first item with that name, if any.
SetPriorityQ(q, n, p) ==
    IF \E i \in 1..Len(q) : q[i].folder = n
    THEN LET k == CHOOSE i \in 1..Len(q) :
                    q[i].folder = n /\ \A j \in 1..(i - 1) : q[j].folder # n
         IN  Sort([q EXCEPT ![k].priority = p])
    ELSE q

\* min(item.priority for item in self._queue), for a non-empty queue
MinPriority(q) ==
    CHOOSE p \in {q[i].priority : i \in 1..Len(q)} :
        \A i \in 1..Len(q) : p <= q[i].priority

\* The priority move_to_front hands to set_priority.
FrontPriority(q) == MinPriority(q) - 1

\* What the model remembers of the last queue operation: its name, the folder
\* name it was given or returned, the priority of a returned item, whether it
\* found / returned something, the name given to a successful move_to_front
\* that came right before (peek only) and whether the operation before was a
\* refresh too (refresh only).
QLastOf(op, name, prio, ok, mtf, twice) ==
    [op |-> op, name |-> name, prio |-> prio, ok |-> ok, mtf |-> mtf, twice |-> twice]

QLast(op, name, prio, ok, mtf) == QLastOf(op, name, prio, ok, mtf, FALSE)

\* The content directory changes behind the queue's back (sync, manual edits).
FsChange(n, s) ==
    /\ fs[n] # s
    /\ fs' = [fs EXCEPT ![n] = s]
    /\ qlast' = QLast("fs", NoName, 0, TRUE, NoName)
    /\ UNCHANGED queue

\* LocalStorage.cleanup_posted(days): old are the folders under posted/
\* whose mtime is before the cutoff; they are removed.
CleanupPosted(old) ==
    /\ old # {} /\ old \subseteq {n \in Names : fs[n] = "posted"}
    /\ fs' = [n \in Names |-> IF n \in old THEN "absent" ELSE fs[n]]
    /\ UNCHANGED <<queue, qlast>>

Refresh ==
    \E listing \in Listings(fs) :
        /\ queue' = RefreshQ(queue, fs, listing)
        /\ qlast' = QLastOf("refresh", NoName, 0, TRUE, NoName, qlast.op = "refresh")
        /\ UNCHANGED fs

Enqueue(f, p) ==
    /\ queue' = EnqueueQ(queue, f, p)
    /\ qlast' = QLast("enqueue", f, 0, f \in Folders(queue), NoName)
    /\ UNCHANGED fs

\* PostQueue.dequeue: refresh, then pop(0)
Dequeue ==
    \E listing \in Listings(fs) :
        LET q == RefreshQ(queue, fs, listing) IN
        /\ IF q = << >>
           THEN /\ queue' = q
                /\ qlast' = QLast("dequeue", NoName, 0, FALSE, NoName)
           ELSE /\ queue' = Tail(q)
                /\ qlast' = QLast("dequeue", q[1].folder, q[1].priority, TRUE, NoName)
        /\ UNCHANGED fs

\* PostQueue.peek: refresh, then read the head.  mtf remembers the name a
\* successful move_to_front was given when peek is the very next operation.
Peek ==
    \E listing \in Listings(fs) :
        LET q == RefreshQ(queue, fs, listing)
            m == IF qlast.op = "move_to_front" /\ qlast.ok THEN qlast.name ELSE NoName
        IN
        /\ queue' = q
        /\ qlast' = IF q = << >>
                    THEN QLast("peek", NoName, 0, FALSE, m)
                    ELSE QLast("peek", q[1].folder, q[1].priority, TRUE, m)
        /\ UNCHANGED fs

SetPriority(n, p) ==
    /\ queue' = SetPriorityQ(queue, n, p)
    /\ qlast' = QLast("set_priority", n, 0, n \in Folders(queue), NoName)
    /\ UNCHANGED fs

\* PostQueue.move_to_front
MoveToFront(n) ==
    /\ queue # << >> => FrontPriority(queue) >= -MaxFrontDepth
    /\ IF queue = << >>
       THEN /\ queue' = queue
            /\ qlast' = QLast("move_to_front", n, 0, FALSE, NoName)
       ELSE /\ queue' = SetPriorityQ(queue, n, FrontPriority(queue))
            /\ qlast' = QLast("move_to_front", n, 0, n \in Folders(queue), NoName)
    /\ UNCHANGED fs

\* PostQueue.clear
Clear ==
    /\ queue' = << >>
    /\ qlast' = QLast("clear", NoName, 0, TRUE, NoName)
    /\ UNCHANGED fs

\* The same operations on a second PostQueue over the same content directory
\* (the queue of another run of the program, fed in another order).
TwinRefresh ==
    \E listing \in Listings(fs) :
        /\ twin' = RefreshQ(twin, fs, listing)
        /\ UNCHANGED <<dir, plast, uploads>>

TwinEnqueue(f, p) ==
    /\ twin' = EnqueueQ(twin, f, p)
    /\ UNCHANGED <<dir, plast, uploads>>

TwinSetPriority(n, p) ==
    /\ twin' = SetPriorityQ(twin, n, p)
    /\ UNCHANGED <<dir, plast, uploads>>

(***************************************************************************)
(* StateManager: the history file                                          *)
(***************************************************************************)
\* history[:100] in add_to_history
HistoryCap == 100
\* the default of get_history's limit parameter
DefaultLimit == 50

\* Python's s[:n] for n >= 0
Prefix(s, n) == SubSeq(s, 1, IF n < Len(s) THEN n ELSE Len(s))

HistFile(status, content) == [status |-> status, content |-> content]

\* StateManager.get_history(limit): [] when the file is missing or unreadable
GetHistory(file, limit) ==
    IF file.status = "ok" THEN Prefix(file.content, limit) ELSE << >>

\* A post_info dict: the folder name and its timestamp; timestamp 0 stands
\* for a dict without the "timestamp" key.  Clock readings are >= 1.
Entry(f, t) == [folder |-> f, timestamp |-> t]

\* if "timestamp" not in post_info: post_info["timestamp"] = now
Stamp(info, now) == IF info.timestamp = 0 THEN [info EXCEPT !.timestamp = now] ELSE info

\* Faulty variant: add_to_history that appends the new entry at the end
AddToHistoryAtEnd(file, info, now) ==
    HistFile("ok", Prefix(Append(GetHistory(file, DefaultLimit), Stamp(info, now)),
                          HistoryCap))

\* The rest of add_to_history once history = self.get_history() is read:
\* the entry is inserted at the front, the list cut to 100 and written.
WriteHistory(history, info, now) ==
    HistFile("ok", Prefix(<<Stamp(info, now)>> \o history, HistoryCap))

\* StateManager.add_to_history: history = self.get_history() reads with the
\* default limit; the entry is inserted at the front, the list cut to 100
\* and written back.
AddToHistory(file, info, now) ==
    WriteHistory(GetHistory(file, DefaultLimit), info, now)

\* Number of add_to_history calls the history model makes.
MaxInserts == 120
\* The limits get_history is called with.
Limits == {1, DefaultLimit, HistoryCap}

\* add_to_history(post_info) at clock reading hcount + 1; the caller either
\* took the timestamp itself just before, or left it out.
HistoryAdd(f, stamped) ==
    /\ hcount < MaxInserts
    /\ LET now == hcount + 1
       IN  histFile' = AddToHistory(histFile, Entry(f, IF stamped THEN now ELSE 0), now)
    /\ hcount' = hcount + 1
    /\ UNCHANGED hgot

\* get_history(limit)
HistoryGet(limit) ==
    /\ hgot' = GetHistory(histFile, limit)
    /\ UNCHANGED <<histFile, hcount>>

(***************************************************************************)
(* Config and TimeSlotManager                                              *)
(***************************************************************************)
T0900 == <<"0", "9", ":", "0", "0">>
T1500 == <<"1", "5", ":", "0", "0">>
T2100 == <<"2", "1", ":", "0", "0">>

\* constants.DEFAULT_POST_TIMES
DEFAULT_POST_TIMES == <<T0900, T1500, T2100>>

\* Values of the POST_TIMES environment variable: unset, "21:00,09:00" and
\* "09:00, 15:00".
EnvInputs ==
    { << >>,
      T2100 \o <<",">> \o T0900,
      T0900 \o <<",", " ">> \o T1500 }

\* Strings a caller passes as a time: "09:00", "15:00", "9" and "24:00".
SlotInputs ==
    { T0900, T1500,
      <<"9">>,
      <<"2", "4", ":", "0", "0">> }

\* Lists passed to set_slots / update_times have at most MaxSlots entries, and
\* add_slot is not taken on a list that long.
MaxSlots == 2

SlotLists == UNION {[1..n -> SlotInputs] : n \in 0..MaxSlots}

\* Lists passed to update_times where restarts are followed: entries among
\* "09:00", "9:00" and "15:00".
BootLists ==
    UNION {[1..n -> {T0900, <<"9", ":", "0", "0">>, T1500}] : n \in 0..MaxSlots}

\* Instants the clock is read at, in minutes since midnight: 00:00, 08:30,
\* 09:00, 10:00, 21:00, 22:00.
NowInputs == {0, 510, 540, 600, 1260, 1320}

\* Config._parse_times
ParseTimes(env) ==
    IF env = << >> THEN DEFAULT_POST_TIMES
    ELSE LET parts == Split(env, ",")
             strip == [i \in 1..Len(parts) |-> Strip(parts[i])]
         IN  SelectSeq(strip, LAMBDA t : t # << >>)

\* TimeSlotManager.__init__ with times=None:
\* self._times = config.post_times or DEFAULT_POST_TIMES
InitTimes(env) ==
    IF ParseTimes(env) # << >> THEN ParseTimes(env) ELSE DEFAULT_POST_TIMES

\* TimeSlotManager._parse_time; ok = FALSE stands for ValueError.
ParseTime(s) ==
    LET parts  == Split(Strip(s), ":")
        hour   == IntOf(parts[1])
        minute == IF Len(parts) > 1 THEN IntOf(parts[2]) ELSE [ok |-> TRUE, val |-> 0]
    IN  IF /\ hour.ok /\ minute.ok
           /\ hour.val \in 0..23
           /\ minute.val \in 0..59
        THEN [ok |-> TRUE, hour |-> hour.val, minute |-> minute.val]
        ELSE [ok |-> FALSE, hour |-> 0, minute |-> 0]

\* The time strings the model meets, each with what _parse_time makes of it,
\* computed once.
TimeStrings == SlotInputs \cup {T0900, T1500, T2100, <<"9", ":", "0", "0">>}
ParseTimeMemo == [s \in TimeStrings |-> ParseTime(s)]
ParsedTime(s) == IF s \in TimeStrings THEN ParseTimeMemo[s] ELSE ParseTime(s)

\* TimeSlotManager.is_valid_time
IsValidTime(s) == ParsedTime(s).ok

\* Minutes since midnight of a parsed time.
MinuteOfDay(t) == t.hour * 60 + t.minute

NextSlot(kind, day, minute) == [kind |-> kind, day |-> day, minute |-> minute]

\* The loop over today's slots in get_next_slot: the first slot later than
\* now, "error" if a string met on the way does not parse, else "none".
RECURSIVE ScanToday(_, _)
ScanToday(ts, now) ==
    IF ts = << >> THEN NextSlot("none", 0, 0)
    ELSE LET t == ParsedTime(Head(ts)) IN
         IF ~t.ok THEN NextSlot("error", 0, 0)
         ELSE IF MinuteOfDay(t) > now THEN NextSlot("slot", 0, MinuteOfDay(t))
         ELSE ScanToday(Tail(ts), now)

\* TimeSlotManager.get_next_slot at clock reading now; day 0 is today.
GetNextSlot(ts, now) ==
    IF ts = << >> THEN NextSlot("none", 0, 0)
    ELSE LET today == ScanToday(ts, now) IN
         IF today.kind # "none" THEN today
         ELSE NextSlot("slot", 1, MinuteOfDay(ParsedTime(ts[1])))

\* list.remove(x): the first occurrence goes
RemoveFirst(s, x) ==
    LET k == CHOOSE i \in 1..Len(s) : s[i] = x /\ \A j \in 1..(i - 1) : s[j] # x
    IN  SubSeq(s, 1, k - 1) \o SubSeq(s, k + 1, Len(s))

InSeq(s, x) == \E i \in 1..Len(s) : s[i] = x

\* TimeSlotManager.set_slots: the list it stores; ok = FALSE stands for
\* SchedulerError, which leaves the stored list as it was.
SetSlots(ts, new) ==
    IF \A i \in 1..Len(new) : IsValidTime(new[i])
    THEN [ok |-> TRUE, times |-> SortStrs(new)]
    ELSE [ok |-> FALSE, times |-> ts]

TLast(op, ok, now, ret) == [op |-> op, ok |-> ok, now |-> now, ret |-> ret]

Config(post_times, shared) == [post_times |-> post_times, shared |-> shared]

\* Config() read from the environment and the TimeSlotManager made from it:
\* _times is config.post_times itself, not a copy.
ConfigOf(env) == Config(ParseTimes(env), ParseTimes(env) # << >>)

\* set_slots binds _times to a new list; config.post_times keeps the old one.
SetSlotsOp(new) ==
    LET r == SetSlots(times, new) IN
    /\ times' = r.times
    /\ config' = IF r.ok THEN Config(config.post_times, FALSE) ELSE config
    /\ tlast' = TLast("set_slots", r.ok, 0, NextSlot("none", 0, 0))

\* TimeSlotManager.add_slot
AddSlot(t) ==
    /\ Len(times) < MaxSlots
    /\ times' = IF IsValidTime(t) /\ ~InSeq(times, t)
                THEN SortStrs(Append(times, t)) ELSE times
    /\ config' = IF config.shared THEN Config(times', TRUE) ELSE config
    /\ tlast' = TLast("add_slot", IsValidTime(t), 0, NextSlot("none", 0, 0))

\* TimeSlotManager.remove_slot
RemoveSlot(t) ==
    /\ times' = IF InSeq(times, t) THEN RemoveFirst(times, t) ELSE times
    /\ config' = IF config.shared THEN Config(times', TRUE) ELSE config
    /\ tlast' = TLast("remove_slot", TRUE, 0, NextSlot("none", 0, 0))

\* TimeSlotManager.get_next_slot
GetNextSlotOp(now) ==
    LET r == GetNextSlot(times, now) IN
    /\ tlast' = TLast("get_next_slot", r.kind # "error", now, r)
    /\ UNCHANGED <<times, config>>

(***************************************************************************)
(* StateManager: the state file                                            *)
(***************************************************************************)
StateFile(status, enabled, post_times) ==
    [status |-> status, enabled |-> enabled, post_times |-> post_times]

\* StateManager.load_state: the file's content, or _get_default_state() when
\* the file is missing.  (last_updated is left out: nothing reads it.)
LoadState(file, cfg) ==
    IF file.status = "ok"
    THEN [enabled |-> file.enabled, post_times |-> file.post_times]
    ELSE [enabled |-> TRUE, post_times |-> cfg.post_times]

\* StateManager.save_state
SaveState(state) == StateFile("ok", state.enabled, state.post_times)

\* StateManager.set_scheduler_enabled
SetSchedulerEnabled(file, cfg, b) ==
    SaveState([LoadState(file, cfg) EXCEPT !.enabled = b])

\* Faulty variant: update_post_times that saves the state it loaded
UpdatePostTimesUnchanged(file, cfg, ts) == SaveState(LoadState(file, cfg))

\* StateManager.update_post_times
UpdatePostTimes(file, cfg, ts) ==
    SaveState([LoadState(file, cfg) EXCEPT !.post_times = ts])

(***************************************************************************)
(* PostScheduler: start, stop, update_times and the timer engine           *)
(***************************************************************************)
Job(kind, time) == [kind |-> kind, time |-> time]
NoJob == Job("none", NoName)
\* id=f"post_{time_str}", id="drive_sync", id="keep_alive"
PostJob(s) == Job("post", s)
SyncJob == Job("drive_sync", NoName)
KeepAliveJob == Job("keep_alive", NoName)

\* hour, minute = map(int, time_str.split(":")) and CronTrigger(hour, minute):
\* FALSE stands for the ValueError of the unpacking, of int() or of a field
\* out of range.
CronOk(s) ==
    LET parts == Split(s, ":") IN
    /\ Len(parts) = 2
    /\ IntOf(parts[1]).ok /\ IntOf(parts[2]).ok
    /\ IntOf(parts[1]).val \in 0..23
    /\ IntOf(parts[2]).val \in 0..59

\* CronOk of the time strings the model meets, computed once.
CronOkMemo == [s \in TimeStrings |-> CronOk(s)]
SlotJobOk(s) == IF s \in TimeStrings THEN CronOkMemo[s] ELSE CronOk(s)

\* The loop of start() over the slots: add_job(..., replace_existing=True) for
\* each, until one raises.
RECURSIVE AddSlotJobs(_, _)
AddSlotJobs(ts, js) ==
    IF ts = << >> THEN [ok |-> TRUE, jobs |-> js]
    ELSE IF ~SlotJobOk(Head(ts)) THEN [ok |-> FALSE, jobs |-> js]
    ELSE AddSlotJobs(Tail(ts), js \cup {PostJob(Head(ts))})

\* The scheduler's own state, as a value: _running, the engine, its jobs and
\* the state file.
Sched(r, e, js, file) == [running |-> r, engine |-> e, jobs |-> js, file |-> file]

\* PostScheduler.start; ok = FALSE: it raised part-way.
StartOf(sch, ts, cfg) ==
    IF sch.running THEN [sch |-> sch, ok |-> TRUE, noop |-> TRUE]
    ELSE LET r == AddSlotJobs(ts, {}) IN
         IF ~r.ok
         THEN [sch |-> [sch EXCEPT !.jobs = r.jobs], ok |-> FALSE, noop |-> FALSE]
         ELSE [sch |-> Sched(TRUE, TRUE, r.jobs \cup {SyncJob, KeepAliveJob},
                             SetSchedulerEnabled(sch.file, cfg, TRUE)),
               ok |-> TRUE, noop |-> FALSE]

\* Faulty variant: stop() without _scheduler.shutdown()
StopWithoutShutdown(sch, cfg) ==
    IF ~sch.running THEN [sch |-> sch, ok |-> TRUE, noop |-> TRUE]
    ELSE [sch |-> Sched(FALSE, sch.engine, sch.jobs,
                        SetSchedulerEnabled(sch.file, cfg, FALSE)),
          ok |-> TRUE, noop |-> FALSE]

\* PostScheduler.stop: shutdown(wait=False) deactivates the engine; the jobs
\* stay registered with it until the next start() removes them.
StopOf(sch, cfg) ==
    IF ~sch.running THEN [sch |-> sch, ok |-> TRUE, noop |-> TRUE]
    ELSE [sch |-> Sched(FALSE, FALSE, sch.jobs,
                        SetSchedulerEnabled(sch.file, cfg, FALSE)),
          ok |-> TRUE, noop |-> FALSE]

Current == Sched(running, engine, jobs, stateFile)

\* arg: the list a successful update_times was called with (empty otherwise).
SLast(op, ok, noop, job) ==
    [op |-> op, ok |-> ok, noop |-> noop, job |-> job, arg |-> << >>]

Install(sch) ==
    /\ running' = sch.running
    /\ engine' = sch.engine
    /\ jobs' = sch.jobs
    /\ stateFile' = sch.file

Start ==
    LET r == StartOf(Current, times, config) IN
    /\ Install(r.sch)
    /\ slast' = SLast("start", r.ok, r.noop, NoJob)

Stop ==
    LET r == StopOf(Current, config) IN
    /\ Install(r.sch)
    /\ slast' = SLast("stop", r.ok, r.noop, NoJob)

\* PostScheduler.update_times
UpdateTimes(new) ==
    LET r == SetSlots(times, new) IN
    IF ~r.ok
    THEN /\ slast' = SLast("update_times", FALSE, FALSE, NoJob)
         /\ UNCHANGED <<running, engine, jobs, stateFile, times, config>>
    ELSE LET saved   == [Current EXCEPT !.file = UpdatePostTimes(stateFile, config, new)]
             stopped == StopOf(saved, config).sch
             started == StartOf(stopped, r.times, config)
         IN  /\ times' = r.times
             /\ config' = Config(config.post_times, FALSE)
             /\ IF running
                THEN /\ Install(started.sch)
                     /\ slast' = [SLast("update_times", started.ok, FALSE, NoJob)
                                     EXCEPT !.arg = IF started.ok THEN new ELSE << >>]
                ELSE /\ Install(saved)
                     /\ slast' = [SLast("update_times", TRUE, FALSE, NoJob)
                                     EXCEPT !.arg = new]

\* The slot list the TimeSlotManager of a new process starts with:
\* get_time_manager() calls TimeSlotManager(), whose times come from the
\* configuration; the state file is not read.
BootTimes(cfg, file) ==
    IF cfg.post_times # << >> THEN cfg.post_times ELSE DEFAULT_POST_TIMES

\* The process ends and is started again.  lifespan() calls stop() on a
\* graceful end (graceful = FALSE: the process is killed); the new process
\* reads the same environment into a new Config, constructs TimeSlotManager
\* and PostScheduler (a new engine without jobs) and lifespan() calls start().
\* The state file stays on disk.  Nothing in this specification changes
\* config.post_times, so it still is what the environment gave.
Reboot(graceful) ==
    LET ended == IF graceful THEN StopOf(Current, config).sch ELSE Current
        cfg   == Config(config.post_times, config.post_times # << >>)
        ts    == BootTimes(cfg, ended.file)
        r     == StartOf(Sched(FALSE, FALSE, {}, ended.file), ts, cfg)
    IN  /\ config' = cfg
        /\ times' = ts
        /\ Install(r.sch)
        /\ slast' = SLast("reboot", r.ok, FALSE, NoJob)

\* Faulty variant: a sync that skips only the folders present locally
FireSyncIgnoringPosted(downloaded) ==
    /\ engine /\ SyncJob \in jobs
    /\ fs' = [n \in Names |-> IF n \in downloaded /\ ~Exists(fs, n) THEN "pending" ELSE fs[n]]
    /\ slast' = SLast("fire", TRUE, FALSE, SyncJob)
    /\ UNCHANGED <<running, engine, jobs, stateFile>>

\* The engine fires the drive-sync job; downloaded are the remote folders
\* sync() finds: it fetches those neither present locally nor under posted/.
FireSync(downloaded) ==
    /\ engine /\ SyncJob \in jobs
    /\ fs' = [n \in Names |-> IF n \in downloaded /\ fs[n] = "absent" THEN "pending" ELSE fs[n]]
    /\ slast' = SLast("fire", TRUE, FALSE, SyncJob)
    /\ UNCHANGED <<running, engine, jobs, stateFile>>

\* The engine fires the keep-alive job.
FireKeepAlive ==
    /\ engine /\ KeepAliveJob \in jobs
    /\ slast' = SLast("fire", TRUE, FALSE, KeepAliveJob)
    /\ UNCHANGED <<running, engine, jobs, stateFile>>

(***************************************************************************)
(* FolderParser                                                            *)
(*                                                                         *)
(* A content folder is the sequence of entries folder.iterdir() yields, in  *)
(* the order it yields them; a file name is a tuple of characters.  The     *)
(* patterns of constants.py are matched as re.match does: from the start of *)
(* the name, letter case ignored, whatever follows the match ignored too.   *)
(***************************************************************************)
\* A pattern is a literal word, "[-_]?" when sep is TRUE, then "(\d+)", "\."
\* and "(jpg|jpeg|png)".
Pattern(word, sep) == [word |-> word, sep |-> sep]

\* constants.SLIDE_PATTERNS
SLIDE_PATTERNS == <<Pattern(<<"s", "l", "i", "d", "e">>, TRUE), Pattern(<< >>, FALSE)>>

\* constants.STORY_PATTERNS
STORY_PATTERNS == <<Pattern(<<"s", "t", "o", "r", "y">>, TRUE)>>

\* The alternatives of the last group of every pattern.
PatternExtensions == {<<"j", "p", "g">>, <<"j", "p", "e", "g">>, <<"p", "n", "g">>}

\* constants.VALID_IMAGE_EXTENSIONS
VALID_IMAGE_EXTENSIONS ==
    {<<".">> \o <<"j", "p", "g">>, <<".">> \o <<"j", "p", "e", "g">>, <<".">> \o <<"p", "n", "g">>}

File(name, is_file) == [name |-> name, is_file |-> is_file]

\* The entries a content folder of the model can hold: story-1.jpg,
\* slide-1.jpg, slide-2.jpg, slide_1.png, Slide-2.jpeg, 1.jpg, 2.jpgx, x.jpg,
\* x.png, x.txt and story-2.jpg
\* (the last one is a sub-directory).
Entries ==
    { File(<<"s", "t", "o", "r", "y", "-", "1", ".", "j", "p", "g">>, TRUE),
      File(<<"s", "l", "i", "d", "e", "-", "1", ".", "j", "p", "g">>, TRUE),
      File(<<"s", "l", "i", "d", "e", "-", "2", ".", "j", "p", "g">>, TRUE),
      File(<<"s", "l", "i", "d", "e", "_", "1", ".", "p", "n", "g">>, TRUE),
      File(<<"S", "l", "i", "d", "e", "-", "2", ".", "j", "p", "e", "g">>, TRUE),
      File(<<"1", ".", "j", "p", "g">>, TRUE),
      File(<<"2", ".", "j", "p", "g", "x">>, TRUE),
      File(<<"x", ".", "j", "p", "g">>, TRUE),
      File(<<"x", ".", "p", "n", "g">>, TRUE),
      File(<<"x", ".", "t", "x", "t">>, TRUE),
      File(<<"s", "t", "o", "r", "y", "-", "2", ".", "j", "p", "g">>, FALSE) }

\* A folder of the model holds at most MaxFiles entries.
MaxFiles == 3

\* The listings iterdir() can yield: entries with distinct names, any order.
Dirs ==
    UNION {{d \in [1..n -> Entries] : \A i, j \in 1..n : d[i] = d[j] => i = j}
              : n \in 0..MaxFiles}

\* s begins with w, letter case ignored (re.IGNORECASE).
StartsWith(s, w) ==
    Len(s) >= Len(w) /\ Lower(SubSeq(s, 1, Len(w))) = Lower(w)

\* The length of the run of digits s begins with.
RECURSIVE DigitRun(_)
DigitRun(s) ==
    IF s # << >> /\ IsDigit(Head(s)) THEN 1 + DigitRun(Tail(s)) ELSE 0

NoMatch == [ok |-> FALSE, number |-> 0]

\* re.match(pattern, name, re.IGNORECASE) and int(match.group(1))
Match(pat, name) ==
    IF ~StartsWith(name, pat.word) THEN NoMatch
    ELSE LET r1 == SubSeq(name, Len(pat.word) + 1, Len(name))
             r2 == IF pat.sep /\ r1 # << >> /\ Head(r1) \in {"-", "_"}
                   THEN Tail(r1) ELSE r1
             k  == DigitRun(r2)
             r3 == SubSeq(r2, k + 1, Len(r2))
         IN  IF /\ k >= 1
                /\ r3 # << >> /\ Head(r3) = "."
                /\ \E e \in PatternExtensions : StartsWith(Tail(r3), e)
             THEN [ok |-> TRUE, number |-> DigitsValue(SubSeq(r2, 1, k))]
             ELSE NoMatch

\* "for pattern in patterns: match = ...; if match: ...; break"
RECURSIVE FirstMatch(_, _)
FirstMatch(pats, name) ==
    IF pats = << >> THEN NoMatch
    ELSE IF Match(Head(pats), name).ok THEN Match(Head(pats), name)
    ELSE FirstMatch(Tail(pats), name)

\* FirstMatch for the names and pattern lists the model meets, computed once.
FirstMatchMemo ==
    [pats \in {SLIDE_PATTERNS, STORY_PATTERNS} |->
        [e \in Entries |-> FirstMatch(pats, e.name)]]

\* The (number, file) pairs the loop over iterdir() collects, in listing order.
RECURSIVE Numbered(_, _)
Numbered(pats, d) ==
    IF d = << >> THEN << >>
    ELSE LET m == IF Head(d) \in Entries /\ pats \in DOMAIN FirstMatchMemo
                  THEN FirstMatchMemo[pats][Head(d)]
                  ELSE FirstMatch(pats, Head(d).name)
         IN
         (IF Head(d).is_file /\ m.ok
          THEN <<[number |-> m.number, name |-> Head(d).name]>> ELSE << >>)
             \o Numbered(pats, Tail(d))

\* list.sort(key=lambda x: x[0]) is stable: x goes behind every pair whose
\* number is <= its own.
InsertNumbered(x, s) ==
    LET k == Cardinality({i \in 1..Len(s) : s[i].number <= x.number})
    IN  SubSeq(s, 1, k) \o <<x>> \o SubSeq(s, k + 1, Len(s))

RECURSIVE SortNumbered(_)
SortNumbered(s) ==
    IF s = << >> THEN << >>
    ELSE InsertNumbered(s[Len(s)], SortNumbered(SubSeq(s, 1, Len(s) - 1)))

\* The body shared by _find_slides and _find_stories.
Find(pats, d) ==
    LET s == SortNumbered(Numbered(pats, d)) IN [i \in 1..Len(s) |-> s[i].name]

\* FolderParser._find_slides
FindSlides(d) == Find(SLIDE_PATTERNS, d)

\* FolderParser._find_stories
FindStories(d) == Find(STORY_PATTERNS, d)

\* Path.suffix: from the last dot of the name, if that is not its first
\* character.
Suffix(name) ==
    IF \E i \in 2..Len(name) : name[i] = "."
    THEN LET k == CHOOSE i \in 2..Len(name) :
                    name[i] = "." /\ \A j \in (i + 1)..Len(name) : name[j] # "."
         IN  SubSeq(name, k, Len(name))
    ELSE << >>

\* FolderParser._find_any_image
FindAnyImage(d) ==
    LET imgs == SelectSeq(d, LAMBDA f :
                    f.is_file /\ Lower(Suffix(f.name)) \in VALID_IMAGE_EXTENSIONS)
    IN  [i \in 1..Len(imgs) |-> imgs[i].name]

\* Faulty variant: the slide patterns looked at before the story pattern
DetectTypeSlidesFirst(d) ==
    IF Len(FindSlides(d)) > 1 THEN "carousel"
    ELSE IF FindStories(d) # << >> THEN "story"
    ELSE "single"

\* FolderParser.detect_type
DetectType(d) ==
    IF FindStories(d) # << >> THEN "story"
    ELSE IF Len(FindSlides(d)) > 1 THEN "carousel"
    ELSE "single"

PostTypes == {"story", "carousel", "single"}

\* FolderParser.get_slides; post_type "none" stands for None.
GetSlides(d, post_type) ==
    LET pt == IF post_type = "none" THEN DetectType(d) ELSE post_type IN
    IF pt = "story" THEN FindStories(d)
    ELSE IF FindSlides(d) # << >> THEN FindSlides(d)
    ELSE SortStrs(FindAnyImage(d))

\* What the model remembers of the last FolderParser call: its name, the
\* post type it was given or detected, the files it returned and whether it
\* returned (ok = FALSE stands for FolderParseError).
PLast(op, ok, type, slides) == [op |-> op, ok |-> ok, type |-> type, slides |-> slides]

DetectTypeOp ==
    /\ plast' = PLast("detect_type", TRUE, DetectType(dir), << >>)
    /\ UNCHANGED dir

GetSlidesOp(post_type) ==
    /\ plast' = PLast("get_slides", TRUE,
                      IF post_type = "none" THEN DetectType(dir) ELSE post_type,
                      GetSlides(dir, post_type))
    /\ UNCHANGED dir

\* FolderParser.parse of a folder that exists
ParseOp ==
    LET slides == GetSlides(dir, DetectType(dir)) IN
    /\ plast' = PLast("parse", slides # << >>, DetectType(dir), slides)
    /\ UNCHANGED dir

(***************************************************************************)
(* PostScheduler: the two publish paths                                    *)
(*                                                                         *)
(* "timer" is _execute_scheduled_post -> post_next -> post_folder, a        *)
(* coroutine the AsyncIOScheduler runs on the event loop.  "manual" is the  *)
(* /post-now and /post-folder routes, async def functions that call the     *)
(* synchronous post_now -> _post_folder_sync on the same event loop.  A     *)
(* path keeps the event-loop thread from its first step until it suspends   *)
(* at an await on pending I/O or ends.                                      *)
(***************************************************************************)
Paths == {"timer", "manual"}

\* signal is what the caller of the path got when it last ended: "none",
\* "on_success" / "on_error" (the callback branch of _execute_scheduled_post)
\* or "raised" (SchedulerError out of post_now).
\* result is what the poster returned (the number of the remote post, 0
\* before the publish call), read the history list add_to_history has read.
Task(pc, folder, dequeued, outcome) ==
    [pc |-> pc, folder |-> folder, dequeued |-> dequeued, outcome |-> outcome,
     signal |-> "none", result |-> 0, read |-> << >>]

IdleTask == Task("idle", NoName, FALSE, "none")

\* Remote publishes the model makes before it stops starting new attempts.
MaxPosts == 2

\* Faulty variant: the timer path awaits the remote call, as an asynchronous
\* publishing client would have it do
AwaitsRemoteCall(t, pc) == t = "timer" /\ pc = "publish"

\* Faulty variant: a path that gives up the event loop inside add_to_history,
\* between reading the history file and writing it
AwaitsHistoryWrite(t, pc) == pc = "record"

\* Does path t give up the event loop at the end of step pc?  post_folder and
\* _post_folder_sync hold no await: parse, process, post, mark_as_posted and
\* add_to_history are all synchronous calls.
Suspends(t, pc) == FALSE

\* After a step of t that leaves it at pc.
Release(t, pc) == IF pc = "idle" \/ Suspends(t, pc) THEN "free" ELSE t

CanStep(t) == loop = t \/ (loop = "free" /\ task[t].pc # "idle")

\* Faulty variant: a trigger boundary without its try / except
SignalUncaught(t, outcome) ==
    IF outcome = "error" THEN "raised"
    ELSE IF t = "timer" /\ outcome = "ok" THEN "on_success" ELSE "none"

\* Faulty variant: post_next raising on an empty queue, as post_now does
SignalEmptyAsError(t, outcome) ==
    IF t = "timer"
    THEN IF outcome = "ok" THEN "on_success" ELSE "on_error"
    ELSE IF outcome = "error" THEN "raised" ELSE "none"

\* What the end of a path hands to its caller.  _execute_scheduled_post:
\* success callback for a truthy result, nothing for None, and every
\* Exception caught and handed to the error callback.  post_now: the result
\* is returned, SchedulerError is raised.
Signal(t, outcome) ==
    IF t = "timer"
    THEN IF outcome = "ok" THEN "on_success"
         ELSE IF outcome = "error" THEN "on_error" ELSE "none"
    ELSE IF outcome = "error" THEN "raised" ELSE "none"

\* The path ends: the exception (if any) reaches its caller.
End(t, outcome) ==
    /\ task' = [task EXCEPT ![t] =
                    [Task("idle", NoName, FALSE, outcome)
                        EXCEPT !.signal = Signal(t, outcome)]]
    /\ loop' = "free"

\* The engine fires a slot job: _execute_scheduled_post, up to the return of
\* post_next's dequeue().
TimerBegin(j) ==
    /\ engine /\ j \in jobs /\ j.kind = "post"
    /\ loop = "free" /\ task["timer"].pc = "idle"
    /\ Len(posts) < MaxPosts
    /\ Dequeue
    /\ IF qlast'.ok
       THEN /\ task' = [task EXCEPT !["timer"] = Task("parse", qlast'.name, TRUE, "none")]
            /\ loop' = "timer"
       ELSE End("timer", "empty")
    /\ slast' = SLast("fire", TRUE, FALSE, j)
    /\ UNCHANGED <<running, engine, jobs, stateFile, posts, hvars>>

\* post_now(folder_name) up to the call of _post_folder_sync; NoName stands
\* for folder_name=None.
ManualBegin(fn) ==
    /\ loop = "free" /\ task["manual"].pc = "idle"
    /\ Len(posts) < MaxPosts
    /\ IF fn # NoName
       THEN /\ IF Exists(fs, fn)
               THEN /\ task' = [task EXCEPT !["manual"] = Task("parse", fn, FALSE, "none")]
                    /\ loop' = "manual"
               ELSE End("manual", "error")
            /\ UNCHANGED qvars
       ELSE /\ Dequeue
            /\ IF qlast'.ok
               THEN /\ task' = [task EXCEPT !["manual"] =
                                    Task("parse", qlast'.name, TRUE, "none")]
                    /\ loop' = "manual"
               ELSE End("manual", "error")
    /\ UNCHANGED <<posts, hvars, svars>>

\* Faulty variant: a parse failure that puts the bad folder away under posted/
ParseStepArchivingBadFolder(t, ok) ==
    /\ CanStep(t) /\ task[t].pc = "parse"
    /\ IF ok /\ IsValidContentFolder(fs, task[t].folder)
       THEN /\ task' = [task EXCEPT ![t].pc = "publish"]
            /\ loop' = Release(t, "publish")
            /\ UNCHANGED fs
       ELSE /\ End(t, "error")
            /\ fs' = [fs EXCEPT ![task[t].folder] = "posted"]
    /\ UNCHANGED <<queue, qlast, posts, hvars, svars>>

\* parser.parse(folder) and processor.process_folder(...): ContentError when
\* the folder holds no image; ok = FALSE is an image that cannot be processed.
ParseStep(t, ok) ==
    /\ CanStep(t) /\ task[t].pc = "parse"
    /\ IF ok /\ IsValidContentFolder(fs, task[t].folder)
       THEN /\ task' = [task EXCEPT ![t].pc = "publish"]
            /\ loop' = Release(t, "publish")
       ELSE End(t, "error")
    /\ UNCHANGED <<qvars, posts, hvars, svars>>

\* Faulty variant: a publish that goes on to the history without the move
PublishStepSkippingArchive(t, ok) ==
    /\ CanStep(t) /\ task[t].pc = "publish"
    /\ IF ok
       THEN /\ posts' = Append(posts, task[t].folder)
            /\ task' = [task EXCEPT ![t].pc = "read", ![t].result = Len(posts) + 1]
            /\ loop' = Release(t, "read")
       ELSE /\ End(t, "error")
            /\ UNCHANGED posts
    /\ UNCHANGED <<qvars, hvars, svars>>

\* poster.post_story / poster.post_carousel: the remote call; ok = FALSE is a
\* rejected or failed request.
PublishStep(t, ok) ==
    /\ CanStep(t) /\ task[t].pc = "publish"
    /\ IF ok
       THEN /\ posts' = Append(posts, task[t].folder)
            /\ task' = [task EXCEPT ![t].pc = "archive", ![t].result = Len(posts) + 1]
            /\ loop' = Release(t, "archive")
       ELSE /\ End(t, "error")
            /\ UNCHANGED posts
    /\ UNCHANGED <<qvars, hvars, svars>>

\* Faulty variant: a move that fails after the folder left the content path
ArchiveStepLosingFolder(t, ok) ==
    /\ CanStep(t) /\ task[t].pc = "archive"
    /\ IF ok /\ Exists(fs, task[t].folder)
       THEN /\ fs' = [fs EXCEPT ![task[t].folder] = "posted"]
            /\ task' = [task EXCEPT ![t].pc = "read"]
            /\ loop' = Release(t, "read")
       ELSE /\ End(t, "error")
            /\ fs' = [fs EXCEPT ![task[t].folder] = "absent"]
    /\ UNCHANGED <<queue, qlast, posts, hvars, svars>>

\* storage.mark_as_posted(folder): StorageError when the folder is gone, else
\* it is moved under posted/; ok = FALSE is a move that fails.
ArchiveStep(t, ok) ==
    /\ CanStep(t) /\ task[t].pc = "archive"
    /\ IF ok /\ Exists(fs, task[t].folder)
       THEN /\ fs' = [fs EXCEPT ![task[t].folder] = "posted"]
            /\ task' = [task EXCEPT ![t].pc = "read"]
            /\ loop' = Release(t, "read")
       ELSE /\ End(t, "error")
            /\ UNCHANGED fs
    /\ UNCHANGED <<queue, qlast, posts, hvars, svars>>

\* What each folder of the model holds: "a" two slide files (listed out of
\* order), "A" two story files, "b" one image with another name.
ContentOf ==
    [n \in Names |->
        IF n = <<"a">>
        THEN <<File(<<"s", "l", "i", "d", "e", "-", "2", ".", "j", "p", "g">>, TRUE), File(<<"s", "l", "i", "d", "e", "-", "1", ".", "j", "p", "g">>, TRUE)>>
        ELSE IF n = <<"A">>
        THEN <<File(<<"s", "t", "o", "r", "y", "-", "1", ".", "j", "p", "g">>, TRUE), File(<<"s", "t", "o", "r", "y", "-", "2", ".", "j", "p", "g">>, TRUE)>>
        ELSE <<File(<<"x", ".", "j", "p", "g">>, TRUE)>>]

\* The post_info dict of post_folder / _post_folder_sync: content is what
\* parser.parse(folder) returned, result what the poster returned.
PostInfo(f, result, now) ==
    [folder |-> f,
     type |-> DetectType(ContentOf[f]),
     slides |-> Len(GetSlides(ContentOf[f], DetectType(ContentOf[f]))),
     result |-> result,
     timestamp |-> now]

\* constants.MAX_CAROUSEL_IMAGES
MAX_CAROUSEL_IMAGES == 10

\* The request post_carousel makes for a list of images: photo_upload for
\* one image, album_upload for more; "none" stands for the PostError of an
\* empty list or of more than MAX_CAROUSEL_IMAGES images.
CarouselRequest(images) ==
    IF Len(images) < 1 \/ Len(images) > MAX_CAROUSEL_IMAGES THEN "none"
    ELSE IF Len(images) = 1 THEN "photo_upload"
    ELSE "album_upload"

\* Story uploads the model lets the remote side accept before it stops
\* making story requests.
MaxUploads == 4

\* The images post_story is given for folder f, by their place in the list.
StoryImages(f) ==
    [i \in 1..Len(GetSlides(ContentOf[f], "story")) |-> [folder |-> f, index |-> i]]

\* poster.post_story on a story folder: photo_upload_to_story for one image
\* after the other; failAt = k > 0 is the k-th upload failing (PostError out
\* of the loop, the uploads before it made), failAt = 0 no failure.
StoryPublish(t, failAt) ==
    /\ CanStep(t) /\ task[t].pc = "publish"
    /\ DetectType(ContentOf[task[t].folder]) = "story"
    /\ Len(uploads) < MaxUploads
    /\ failAt \in 0..Len(StoryImages(task[t].folder))
    /\ uploads' = uploads \o SubSeq(StoryImages(task[t].folder), 1,
                                     IF failAt = 0 THEN Len(StoryImages(task[t].folder))
                                     ELSE failAt - 1)
    /\ PublishStep(t, failAt = 0)

\* poster.post_carousel on a folder that is no story: one upload request.
CarouselPublish(t, ok) ==
    /\ task[t].pc = "publish"
    /\ DetectType(ContentOf[task[t].folder]) # "story"
    /\ PublishStep(t, ok)
    /\ UNCHANGED uploads

\* post_info is built and add_to_history(post_info) reads the history file:
\* history = self.get_history().
ReadStep(t) ==
    /\ CanStep(t) /\ task[t].pc = "read"
    /\ task' = [task EXCEPT ![t].pc = "record",
                            ![t].read = GetHistory(histFile, DefaultLimit)]
    /\ loop' = Release(t, "record")
    /\ UNCHANGED <<qvars, posts, hvars, svars>>

\* What a write of the history file leaves: "ok" the new list, "refused" an
\* open() that fails, "torn" a dump that fails part-way into the truncated file.
Writes == {"ok", "refused", "torn"}

\* The rest of add_to_history(post_info) and the return of post_info; a
\* write that fails raises StateError.
RecordStep(t, wr) ==
    /\ CanStep(t) /\ task[t].pc = "record"
    /\ histFile' = IF wr = "ok"
                   THEN WriteHistory(task[t].read,
                                     PostInfo(task[t].folder, task[t].result, hcount + 1),
                                     hcount + 1)
                   ELSE IF wr = "torn" THEN HistFile("torn", << >>) ELSE histFile
    /\ hcount' = IF wr = "ok" THEN hcount + 1 ELSE hcount
    /\ End(t, IF wr = "ok" THEN "ok" ELSE "error")
    /\ UNCHANGED <<qvars, posts, hgot, svars>>

(***************************************************************************)
(* StateManager: the state file on disk                                    *)
(*                                                                         *)
(* save_state opens the file for writing, which truncates it, and json.dump *)
(* writes the document chunk by chunk; load_state reads what is there.      *)
(* The text of the file is the sequence of chunks written (white space left *)
(* out); a chunk is a tuple of characters.                                  *)
(***************************************************************************)
\* The chunks json.dump writes besides strings, the two characters it
\* escapes, and the keys of the state dict the model follows (each key as one
\* character).
Tok ==
    [quote |-> "\"", backslash |-> "\\",
     lbrace |-> <<"{">>, rbrace |-> <<"}">>, lbracket |-> <<"[">>, rbracket |-> <<"]">>,
     comma |-> <<",">>, colon |-> <<":">>,
     jtrue |-> <<"t", "r", "u", "e">>, jfalse |-> <<"f", "a", "l", "s", "e">>,
     enabled |-> <<"scheduler_enabled">>, times |-> <<"post_times">>,
     updated |-> <<"last_updated">>]

\* Faulty variant: an encoder that writes a string as it is
EscapeNothing(s) == s

\* json.dump of a str: quote and backslash are escaped
RECURSIVE Escape(_)
Escape(s) ==
    IF s = << >> THEN << >>
    ELSE (IF Head(s) \in {Tok.quote, Tok.backslash} THEN <<Tok.backslash, Head(s)>> ELSE <<Head(s)>>)
             \o Escape(Tail(s))

StrTok(s) == <<Tok.quote>> \o Escape(s) \o <<Tok.quote>>

RECURSIVE EncodeItems(_)
EncodeItems(l) ==
    IF l = << >> THEN << >>
    ELSE IF Len(l) = 1 THEN <<StrTok(l[1])>>
    ELSE <<StrTok(Head(l)), Tok.comma>> \o EncodeItems(Tail(l))

\* json.dump(state, f) after state["last_updated"] = now: the chunks written
Encode(st) ==
    <<Tok.lbrace, StrTok(Tok.enabled), Tok.colon, (IF st.enabled THEN Tok.jtrue ELSE Tok.jfalse), Tok.comma,
      StrTok(Tok.times), Tok.colon, Tok.lbracket>>
        \o EncodeItems(st.post_times)
        \o <<Tok.rbracket, Tok.comma, StrTok(Tok.updated), Tok.colon, StrTok(<<"now">>), Tok.rbrace>>

\* The body of a JSON string, unescaped; ok = FALSE: JSONDecodeError
RECURSIVE Unescape(_)
Unescape(e) ==
    IF e = << >> THEN [ok |-> TRUE, val |-> << >>]
    ELSE IF Head(e) = Tok.quote THEN [ok |-> FALSE, val |-> << >>]
    ELSE IF Head(e) = Tok.backslash
    THEN IF Len(e) >= 2 /\ e[2] \in {Tok.quote, Tok.backslash}
         THEN LET r == Unescape(Tail(Tail(e)))
              IN  [ok |-> r.ok, val |-> <<e[2]>> \o r.val]
         ELSE [ok |-> FALSE, val |-> << >>]
    ELSE LET r == Unescape(Tail(e)) IN [ok |-> r.ok, val |-> <<Head(e)>> \o r.val]

ParseStr(tok) ==
    IF Len(tok) >= 2 /\ tok[1] = Tok.quote /\ tok[Len(tok)] = Tok.quote
    THEN Unescape(SubSeq(tok, 2, Len(tok) - 1))
    ELSE [ok |-> FALSE, val |-> << >>]

ValueFail == [ok |-> FALSE, kind |-> "none", b |-> FALSE, l |-> << >>, next |-> 0]

\* The elements of an array of strings from text[i] on, up to its "]"
RECURSIVE ParseItems(_, _, _)
ParseItems(text, i, acc) ==
    IF i + 1 > Len(text) THEN ValueFail
    ELSE LET v == ParseStr(text[i]) IN
         IF ~v.ok THEN ValueFail
         ELSE IF text[i + 1] = Tok.comma THEN ParseItems(text, i + 2, Append(acc, v.val))
         ELSE IF text[i + 1] = Tok.rbracket
         THEN [ok |-> TRUE, kind |-> "list", b |-> FALSE, l |-> Append(acc, v.val),
               next |-> i + 2]
         ELSE ValueFail

\* The JSON value that starts at text[i]; next is the index after it
ParseValue(text, i) ==
    IF i > Len(text) THEN ValueFail
    ELSE IF text[i] = Tok.jtrue
    THEN [ok |-> TRUE, kind |-> "bool", b |-> TRUE, l |-> << >>, next |-> i + 1]
    ELSE IF text[i] = Tok.jfalse
    THEN [ok |-> TRUE, kind |-> "bool", b |-> FALSE, l |-> << >>, next |-> i + 1]
    ELSE IF text[i] = Tok.lbracket
    THEN IF i + 1 > Len(text) THEN ValueFail
         ELSE IF text[i + 1] = Tok.rbracket
         THEN [ok |-> TRUE, kind |-> "list", b |-> FALSE, l |-> << >>, next |-> i + 2]
         ELSE ParseItems(text, i + 1, << >>)
    ELSE IF ParseStr(text[i]).ok
    THEN [ok |-> TRUE, kind |-> "str", b |-> FALSE, l |-> << >>, next |-> i + 1]
    ELSE ValueFail

\* The state dict as the model holds it: the two keys the scheduler reads.
State(enabled, post_times) == [enabled |-> enabled, post_times |-> post_times]

\* A dict without the keys reads as state.get("scheduler_enabled", True) and
\* state.get("post_times", []).
EmptyDict == State(TRUE, << >>)

LoadFail == [ok |-> FALSE, state |-> EmptyDict]

\* The members of an object from the key at text[i] on, up to the final "}"
RECURSIVE ParseMembers(_, _, _)
ParseMembers(text, i, st) ==
    IF i + 2 > Len(text) THEN LoadFail
    ELSE LET k == ParseStr(text[i]) IN
         IF ~k.ok \/ text[i + 1] # Tok.colon THEN LoadFail
         ELSE LET v   == ParseValue(text, i + 2)
                  st2 == IF k.val = Tok.enabled /\ v.kind = "bool"
                         THEN [st EXCEPT !.enabled = v.b]
                         ELSE IF k.val = Tok.times /\ v.kind = "list"
                         THEN [st EXCEPT !.post_times = v.l]
                         ELSE st
              IN  IF ~v.ok \/ v.next > Len(text) THEN LoadFail
                  ELSE IF text[v.next] = Tok.comma THEN ParseMembers(text, v.next + 1, st2)
                  ELSE IF text[v.next] = Tok.rbrace /\ v.next = Len(text)
                  THEN [ok |-> TRUE, state |-> st2]
                  ELSE LoadFail

\* json.load(f) of a state file; ok = FALSE: JSONDecodeError
JsonLoad(text) ==
    IF Len(text) < 2 \/ text[1] # Tok.lbrace THEN LoadFail
    ELSE IF text[2] = Tok.rbrace
    THEN IF Len(text) = 2 THEN [ok |-> TRUE, state |-> EmptyDict] ELSE LoadFail
    ELSE ParseMembers(text, 2, EmptyDict)

Disk(exists, text) == [exists |-> exists, text |-> text]

\* StateManager._get_default_state
DefaultState(cfg) == State(TRUE, cfg.post_times)

\* Faulty variant: load_state that lets the decode error out
LoadDiskRaising(d, cfg) ==
    IF ~d.exists THEN [ok |-> TRUE, state |-> DefaultState(cfg)]
    ELSE JsonLoad(d.text)

\* StateManager.load_state on the file as written: ok = FALSE would be an
\* exception out of it.
LoadDisk(d, cfg) ==
    IF ~d.exists THEN [ok |-> TRUE, state |-> DefaultState(cfg)]
    ELSE LET r == JsonLoad(d.text) IN
         IF r.ok THEN [ok |-> TRUE, state |-> r.state]
         ELSE [ok |-> TRUE, state |-> DefaultState(cfg)]

\* post_times lists of the states that are saved: none, one time, two times
\* out of order, a string with a quote in it and one that is a backslash.
SavedStates ==
    {State(e, l) : e \in BOOLEAN,
                   l \in { << >>, <<T0900>>, <<T1500, T0900>>,
                           <<<<"9", Tok.quote>>>>, <<<<Tok.backslash>>>> }}

\* The save_state call in progress (active, rest: chunks still to write) and
\* what is known of the last one: old, the state a load returned before it
\* began; new, its argument; done, it ran to its end; restarted, the process
\* was restarted since.
Save(active, rest, old, new, done, restarted) ==
    [active |-> active, rest |-> rest, old |-> old, new |-> new, done |-> done,
     restarted |-> restarted]

DLast(op, ok, ret) == [op |-> op, ok |-> ok, ret |-> ret]

\* save_state(st): open(self.state_path, "w") truncates the file.
SaveOpen(st) ==
    /\ ~save.active
    /\ disk' = Disk(TRUE, << >>)
    /\ save' = Save(TRUE, Encode(st), LoadDisk(disk, config).state, st, FALSE, FALSE)
    /\ dlast' = DLast("none", TRUE, EmptyDict)

\* json.dump writes the next chunk.
SaveWrite ==
    /\ save.active /\ save.rest # << >>
    /\ disk' = Disk(TRUE, Append(disk.text, Head(save.rest)))
    /\ save' = [save EXCEPT !.rest = Tail(save.rest)]
    /\ UNCHANGED dlast

\* The with block closes the file: save_state returns.
SaveClose ==
    /\ save.active /\ save.rest = << >>
    /\ save' = [save EXCEPT !.active = FALSE, !.done = TRUE]
    /\ UNCHANGED <<disk, dlast>>

\* The process terminates, in the middle of a save_state or not, and is
\* started again.
Restart ==
    /\ ~save.restarted
    /\ save' = [save EXCEPT !.active = FALSE, !.rest = << >>, !.restarted = TRUE]
    /\ UNCHANGED <<disk, dlast>>

\* load_state()
Load ==
    /\ ~save.active
    /\ LET r == LoadDisk(disk, config) IN dlast' = DLast("load", r.ok, r.state)
    /\ UNCHANGED <<disk, save>>

\* set_scheduler_enabled(b) on the file as written: load_state, the flag is
\* set in the dict it returned, save_state (here run to its end).
SetSchedulerEnabledOp(b) ==
    /\ ~save.active
    /\ LET loaded == LoadDisk(disk, config).state
           st     == [loaded EXCEPT !.enabled = b]
       IN  /\ disk' = Disk(TRUE, Encode(st))
           /\ save' = Save(FALSE, << >>, loaded, st, TRUE, FALSE)
           /\ dlast' = DLast("set_scheduler_enabled", TRUE, st)

(***************************************************************************)
(* InstagramPoster: one publish request against the remote service         *)
(*                                                                         *)
(* post_carousel checks the login first (_ensure_logged_in) and then makes  *)
(* the upload request once, inside a try that turns every exception into    *)
(* PostError.  with_session_retry is imported by client.py and decorates    *)
(* no function, so no step of this path goes through it.                    *)
(***************************************************************************)
\* Uploads the remote side accepts before the model stops making requests.
MaxPublished == 3

\* post_carousel with one image uploads a photo, with more an album.
Requests == {"photo_upload", "album_upload"}

\* request: the upload request of the attempt; authfail: it was refused for
\* an expired session.
Attempt(pc, request, outcome, authfail) ==
    [pc |-> pc, request |-> request, outcome |-> outcome, authfail |-> authfail]

\* The remote side invalidates the session.
Expire ==
    /\ session
    /\ session' = FALSE
    /\ UNCHANGED <<logged, calls, attempt, published>>

\* _ensure_logged_in: is_logged_in() asks the remote side (account_info) when
\* _logged_in is set, and login() follows when the answer is no; loginOk =
\* FALSE is a login the remote side refuses (LoginError).
EnsureLoggedIn(req, loginOk) ==
    /\ attempt.pc = "idle" /\ published < MaxPublished
    /\ IF logged /\ session
       THEN /\ calls' = <<"account_info">>
            /\ attempt' = Attempt("upload", req, "none", FALSE)
            /\ UNCHANGED <<logged, session>>
       ELSE /\ calls' = (IF logged THEN <<"account_info">> ELSE << >>) \o <<"login">>
            /\ logged' = loginOk
            /\ session' = (loginOk \/ session)
            /\ attempt' = IF loginOk THEN Attempt("upload", req, "none", FALSE)
                          ELSE Attempt("idle", req, "LoginError", FALSE)
    /\ UNCHANGED published

\* client.album_upload / photo_upload: refused for an expired session
\* (LoginRequired), rejected for another reason, or accepted; every failure
\* leaves post_carousel as PostError.
Upload(rejected) ==
    /\ attempt.pc = "upload"
    /\ calls' = Append(calls, attempt.request)
    /\ IF ~session
       THEN attempt' = Attempt("idle", attempt.request, "PostError", TRUE)
            /\ UNCHANGED published
       ELSE IF rejected
       THEN attempt' = Attempt("idle", attempt.request, "PostError", FALSE)
            /\ UNCHANGED published
       ELSE attempt' = Attempt("idle", attempt.request, "ok", FALSE)
            /\ published' = published + 1
    /\ UNCHANGED <<logged, session>>

(***************************************************************************)
(* The administrative routes over the scheduler and its state file         *)
(***************************************************************************)
\* StateManager.clear_state: save_state(self._get_default_state())
ClearState(cfg) == SaveState(DefaultState(cfg))

\* POST /reset-state: state.clear_state(); the scheduler is not touched.
ResetState ==
    /\ stateFile' = ClearState(config)
    /\ slast' = SLast("reset_state", TRUE, FALSE, NoJob)
    /\ UNCHANGED <<running, engine, jobs>>

\* POST /toggle-scheduler: stop() when is_running(), else start().
Toggle ==
    LET r == IF running THEN StopOf(Current, config)
             ELSE StartOf(Current, times, config)
    IN  /\ Install(r.sch)
        /\ slast' = SLast("toggle", r.ok, r.noop, NoJob)

\* update_times(new) whose update_post_times cannot write the state file:
\* set_slots has replaced the slot list, save_state raises StateError from
\* its open(), and update_times ends there, before the stop() / start().
UpdateTimesUnsaved(new) ==
    LET r == SetSlots(times, new) IN
    /\ r.ok
    /\ times' = r.times
    /\ config' = Config(config.post_times, FALSE)
    /\ slast' = SLast("update_times", FALSE, FALSE, NoJob)
    /\ UNCHANGED <<running, engine, jobs, stateFile>>

(***************************************************************************)
(* Values the variables of the other components rest at                    *)
(***************************************************************************)

QIdle ==
    /\ fs = [n \in Names |-> "absent"]
    /\ queue = << >>
    /\ qlast = QLast("init", NoName, 0, TRUE, NoName)
PIdle ==
    /\ task = [t \in Paths |-> IdleTask]
    /\ loop = "free"
    /\ posts = << >>
HIdle ==
    /\ histFile = HistFile("missing", << >>)
    /\ hcount = 0
    /\ hgot = << >>
TIdle ==
    /\ config = Config(DEFAULT_POST_TIMES, TRUE)
    /\ times = DEFAULT_POST_TIMES
    /\ tlast = TLast("init", TRUE, 0, NextSlot("none", 0, 0))
SIdle ==
    /\ running = FALSE
    /\ engine = FALSE
    /\ jobs = {}
    /\ stateFile = StateFile("missing", TRUE, << >>)
    /\ slast = SLast("init", TRUE, FALSE, NoJob)

DIdle ==
    /\ disk = Disk(FALSE, << >>)
    /\ save = Save(FALSE, << >>, DefaultState(Config(DEFAULT_POST_TIMES, TRUE)),
                   DefaultState(Config(DEFAULT_POST_TIMES, TRUE)), FALSE, FALSE)
    /\ dlast = DLast("none", TRUE, EmptyDict)
AIdle ==
    /\ logged = FALSE
    /\ session = FALSE
    /\ calls = << >>
    /\ attempt = Attempt("idle", "photo_upload", "none", FALSE)
    /\ published = 0
XIdle ==
    /\ dir = << >>
    /\ plast = PLast("init", TRUE, "single", << >>)
    /\ twin = << >>
    /\ uploads = << >>

(***************************************************************************)
(* The queue, driven by its operations and by changes of the directory     *)
(***************************************************************************)
QueueInit ==
    /\ DIdle /\ AIdle /\ XIdle
    /\ fs \in [Names -> FsStates]
    /\ queue = << >>
    /\ qlast = QLast("init", NoName, 0, TRUE, NoName)
    /\ PIdle /\ HIdle /\ TIdle /\ SIdle

QueueNext ==
    \/ \E n \in Names, s \in FsStates : FsChange(n, s) /\ UNCHANGED <<pvars, hvars, tvars, svars, dvars, avars, xvars>>
    \/ Refresh /\ UNCHANGED <<pvars, hvars, tvars, svars, dvars, avars, xvars>>
    \/ \E f \in Names, p \in 0..MaxPriority : Enqueue(f, p) /\ UNCHANGED <<pvars, hvars, tvars, svars, dvars, avars, xvars>>
    \/ Dequeue /\ UNCHANGED <<pvars, hvars, tvars, svars, dvars, avars, xvars>>
    \/ Peek /\ UNCHANGED <<pvars, hvars, tvars, svars, dvars, avars, xvars>>
    \/ \E n \in Names, p \in 0..MaxPriority : SetPriority(n, p) /\ UNCHANGED <<pvars, hvars, tvars, svars, dvars, avars, xvars>>
    \/ \E n \in Names : MoveToFront(n) /\ UNCHANGED <<pvars, hvars, tvars, svars, dvars, avars, xvars>>
    \/ Clear /\ UNCHANGED <<pvars, hvars, tvars, svars, dvars, avars, xvars>>

QueueSpec == QueueInit /\ [][QueueNext]_vars

(***************************************************************************)
(* The history file, filled by sequential add_to_history calls             *)
(***************************************************************************)
HistoryInit ==
    /\ DIdle /\ AIdle /\ XIdle
    /\ HIdle
    /\ QIdle /\ PIdle /\ TIdle /\ SIdle

HistoryNext ==
    \/ \E stamped \in BOOLEAN : HistoryAdd(<<"a">>, stamped) /\ UNCHANGED <<qvars, pvars, tvars, svars, dvars, avars, xvars>>
    \/ \E limit \in Limits : HistoryGet(limit) /\ UNCHANGED <<qvars, pvars, tvars, svars, dvars, avars, xvars>>

HistorySpec == HistoryInit /\ [][HistoryNext]_vars

(***************************************************************************)
(* The time-slot manager, constructed from the configuration               *)
(***************************************************************************)
SlotsInit ==
    /\ DIdle /\ AIdle /\ XIdle
    /\ \E env \in EnvInputs : config = ConfigOf(env) /\ times = InitTimes(env)
    /\ tlast = TLast("init", TRUE, 0, NextSlot("none", 0, 0))
    /\ QIdle /\ PIdle /\ HIdle /\ SIdle

SlotsNext ==
    \/ \E new \in SlotLists : SetSlotsOp(new) /\ UNCHANGED <<qvars, pvars, hvars, svars, dvars, avars, xvars>>
    \/ \E t \in SlotInputs : AddSlot(t) /\ UNCHANGED <<qvars, pvars, hvars, svars, dvars, avars, xvars>>
    \/ \E t \in SlotInputs : RemoveSlot(t) /\ UNCHANGED <<qvars, pvars, hvars, svars, dvars, avars, xvars>>
    \/ \E now \in NowInputs : GetNextSlotOp(now) /\ UNCHANGED <<qvars, pvars, hvars, svars, dvars, avars, xvars>>

SlotsSpec == SlotsInit /\ [][SlotsNext]_vars

(***************************************************************************)
(* The scheduler: start, stop, update_times and the engine's triggers, over *)
(* an empty content directory                                              *)
(***************************************************************************)
SchedInit ==
    /\ DIdle /\ AIdle /\ XIdle
    /\ \E env \in EnvInputs : config = ConfigOf(env) /\ times = InitTimes(env)
    /\ tlast = TLast("init", TRUE, 0, NextSlot("none", 0, 0))
    /\ SIdle
    /\ QIdle /\ PIdle /\ HIdle

SchedNext ==
    \/ Start /\ UNCHANGED <<qvars, pvars, hvars, tvars, dvars, avars, xvars>>
    \/ Stop /\ UNCHANGED <<qvars, pvars, hvars, tvars, dvars, avars, xvars>>
    \/ \E new \in SlotLists : UpdateTimes(new) /\ UNCHANGED <<qvars, pvars, hvars, tlast, dvars, avars, xvars>>
    \/ \E j \in jobs : TimerBegin(j) /\ UNCHANGED <<tvars, dvars, avars, xvars>>
    \/ FireSync({}) /\ UNCHANGED <<queue, qlast, pvars, hvars, tvars, dvars, avars, xvars>>
    \/ FireKeepAlive /\ UNCHANGED <<qvars, pvars, hvars, tvars, dvars, avars, xvars>>

SchedSpec == SchedInit /\ [][SchedNext]_vars

(***************************************************************************)
(* The scheduler across restarts of the process                            *)
(***************************************************************************)
BootInit == SchedInit

BootNext ==
    \/ Start /\ UNCHANGED <<qvars, pvars, hvars, tvars, dvars, avars, xvars>>
    \/ Stop /\ UNCHANGED <<qvars, pvars, hvars, tvars, dvars, avars, xvars>>
    \/ \E new \in BootLists : UpdateTimes(new) /\ UNCHANGED <<qvars, pvars, hvars, tlast, dvars, avars, xvars>>
    \/ \E graceful \in BOOLEAN : Reboot(graceful) /\ UNCHANGED <<qvars, pvars, hvars, tlast, dvars, avars, xvars>>

BootSpec == BootInit /\ [][BootNext]_vars

(***************************************************************************)
(* The publish paths: a running scheduler, the manual routes and a content *)
(* directory that folders are synced into                                  *)
(***************************************************************************)
PostInit ==
    /\ DIdle /\ AIdle /\ XIdle
    /\ fs \in [Names -> {"absent", "pending"}]
    /\ queue = << >>
    /\ qlast = QLast("init", NoName, 0, TRUE, NoName)
    /\ PIdle /\ HIdle /\ TIdle
    /\ LET r == StartOf(Sched(FALSE, FALSE, {}, StateFile("missing", TRUE, << >>)),
                        times, config)
       IN  /\ running = r.sch.running
           /\ engine = r.sch.engine
           /\ jobs = r.sch.jobs
           /\ stateFile = r.sch.file
    /\ slast = SLast("start", TRUE, FALSE, NoJob)

PostNext ==
    \/ \E j \in jobs : TimerBegin(j) /\ UNCHANGED <<tvars, dvars, avars, xvars>>
    \/ \E fn \in Names \cup {NoName} : ManualBegin(fn) /\ UNCHANGED <<tvars, dvars, avars, xvars>>
    \/ \E t \in Paths, ok \in BOOLEAN : ParseStep(t, ok) /\ UNCHANGED <<tvars, dvars, avars, xvars>>
    \/ \E t \in Paths, ok \in BOOLEAN : PublishStep(t, ok) /\ UNCHANGED <<tvars, dvars, avars, xvars>>
    \/ \E t \in Paths, ok \in BOOLEAN : ArchiveStep(t, ok) /\ UNCHANGED <<tvars, dvars, avars, xvars>>
    \/ \E t \in Paths : ReadStep(t) /\ UNCHANGED <<tvars, dvars, avars, xvars>>
    \/ \E t \in Paths, wr \in Writes : RecordStep(t, wr) /\ UNCHANGED <<tvars, dvars, avars, xvars>>
    \/ \E d \in SUBSET Names : FireSync(d) /\ UNCHANGED <<queue, qlast, pvars, hvars, tvars, dvars, avars, xvars>>

PostSpec == PostInit /\ [][PostNext]_vars

(***************************************************************************)
(* The scheduler under the administrative routes                           *)
(***************************************************************************)
AdminInit == SchedInit

AdminNext ==
    \/ Start /\ UNCHANGED <<qvars, pvars, hvars, tvars, dvars, avars, xvars>>
    \/ Stop /\ UNCHANGED <<qvars, pvars, hvars, tvars, dvars, avars, xvars>>
    \/ Toggle /\ UNCHANGED <<qvars, pvars, hvars, tvars, dvars, avars, xvars>>
    \/ \E new \in BootLists : UpdateTimes(new) /\ UNCHANGED <<qvars, pvars, hvars, tlast, dvars, avars, xvars>>
    \/ \E new \in BootLists : UpdateTimesUnsaved(new) /\ UNCHANGED <<qvars, pvars, hvars, tlast, dvars, avars, xvars>>
    \/ ResetState /\ UNCHANGED <<qvars, pvars, hvars, tvars, dvars, avars, xvars>>

AdminSpec == AdminInit /\ [][AdminNext]_vars

(***************************************************************************)
(* Slot triggers alone, over a directory holding a folder that cannot be   *)
(* published: every attempt on a folder of BadFolders ends in a content     *)
(* error, every other step succeeds.  The engine keeps firing the slot      *)
(* triggers and the event loop keeps running the path it started.           *)
(***************************************************************************)
BadFolders == {<<"a">>}

SkipInit == PostInit

SkipNext ==
    \/ \E j \in jobs : TimerBegin(j) /\ UNCHANGED <<tvars, dvars, avars, xvars>>
    \/ ParseStep("timer", task["timer"].folder \notin BadFolders) /\ UNCHANGED <<tvars, dvars, avars, xvars>>
    \/ PublishStep("timer", TRUE) /\ UNCHANGED <<tvars, dvars, avars, xvars>>
    \/ ArchiveStep("timer", TRUE) /\ UNCHANGED <<tvars, dvars, avars, xvars>>
    \/ ReadStep("timer") /\ UNCHANGED <<tvars, dvars, avars, xvars>>
    \/ RecordStep("timer", "ok") /\ UNCHANGED <<tvars, dvars, avars, xvars>>

\* The slot trigger can fire: the guard of TimerBegin, written out.
TimerReady ==
    /\ engine /\ \E j \in jobs : j.kind = "post"
    /\ loop = "free" /\ task["timer"].pc = "idle"
    /\ Len(posts) < MaxPosts

TimerFire == \E j \in jobs : TimerBegin(j) /\ UNCHANGED <<tvars, dvars, avars, xvars>>

\* The steps of a started publication up to reading the history, which run
\* to completion on the loop.
SkipSteps ==
    \/ ParseStep("timer", task["timer"].folder \notin BadFolders) /\ UNCHANGED <<tvars, dvars, avars, xvars>>
    \/ PublishStep("timer", TRUE) /\ UNCHANGED <<tvars, dvars, avars, xvars>>
    \/ ArchiveStep("timer", TRUE) /\ UNCHANGED <<tvars, dvars, avars, xvars>>
    \/ ReadStep("timer") /\ UNCHANGED <<tvars, dvars, avars, xvars>>

\* The history entry can be written: the guard of RecordStep, written out.
RecordReady == CanStep("timer") /\ task["timer"].pc = "record"

RecordFire == RecordStep("timer", "ok") /\ UNCHANGED <<tvars, dvars, avars, xvars>>

\* Fairness: a started publication finishes (WF on its steps; for the last
\* step, weak fairness of RecordFire with its enabling condition RecordReady
\* written out), and the cron trigger keeps firing while the scheduler runs:
\* weak fairness of TimerFire with its enabling condition TimerReady written
\* out.
SkipSpec ==
    /\ SkipInit /\ [][SkipNext]_vars
    /\ WF_vars(SkipSteps)
    /\ ([]<>(~RecordReady) \/ []<><<RecordFire>>_vars)
    /\ ([]<>(~TimerReady) \/ []<><<TimerFire>>_vars)

(***************************************************************************)
(* Slot triggers alone, with the story uploads of post_story told apart:   *)
(* an upload of a story folder may fail at any of its images, every other   *)
(* step succeeds.                                                           *)
(***************************************************************************)
StoryInit == PostInit

StoryNext ==
    \/ \E j \in jobs : TimerBegin(j) /\ UNCHANGED <<tvars, dvars, avars, xvars>>
    \/ ParseStep("timer", TRUE) /\ UNCHANGED <<tvars, dvars, avars, xvars>>
    \/ \E k \in 0..MaxFiles : StoryPublish("timer", k) /\ UNCHANGED <<tvars, dvars, avars, dir, plast, twin>>
    \/ CarouselPublish("timer", TRUE) /\ UNCHANGED <<tvars, dvars, avars, dir, plast, twin>>
    \/ ArchiveStep("timer", TRUE) /\ UNCHANGED <<tvars, dvars, avars, xvars>>
    \/ ReadStep("timer") /\ UNCHANGED <<tvars, dvars, avars, xvars>>
    \/ RecordStep("timer", "ok") /\ UNCHANGED <<tvars, dvars, avars, xvars>>

StorySpec == StoryInit /\ [][StoryNext]_vars

(***************************************************************************)
(* Slot triggers whose every step succeeds, with the remote sync, the       *)
(* clean-up of the posted archive and refreshes of the queue, each run      *)
(* while no publish path holds the event loop                              *)
(***************************************************************************)
ArchiveInit == PostInit

ArchiveNext ==
    \/ \E j \in jobs : TimerBegin(j) /\ UNCHANGED <<tvars, dvars, avars, xvars>>
    \/ ParseStep("timer", TRUE) /\ UNCHANGED <<tvars, dvars, avars, xvars>>
    \/ PublishStep("timer", TRUE) /\ UNCHANGED <<tvars, dvars, avars, xvars>>
    \/ ArchiveStep("timer", TRUE) /\ UNCHANGED <<tvars, dvars, avars, xvars>>
    \/ ReadStep("timer") /\ UNCHANGED <<tvars, dvars, avars, xvars>>
    \/ RecordStep("timer", "ok") /\ UNCHANGED <<tvars, dvars, avars, xvars>>
    \/ \E d \in SUBSET Names : loop = "free" /\ FireSync(d) /\ UNCHANGED <<queue, qlast, pvars, hvars, tvars, dvars, avars, xvars>>
    \/ \E old \in SUBSET Names : loop = "free" /\ CleanupPosted(old) /\ UNCHANGED <<pvars, hvars, tvars, svars, dvars, avars, xvars>>
    \/ loop = "free" /\ Refresh /\ UNCHANGED <<pvars, hvars, tvars, svars, dvars, avars, xvars>>

ArchiveSpec == ArchiveInit /\ [][ArchiveNext]_vars

(***************************************************************************)
(* The state file: saves, restarts of the process and loads                *)
(***************************************************************************)
DiskInit ==
    /\ DIdle /\ AIdle /\ XIdle
    /\ QIdle /\ PIdle /\ HIdle /\ TIdle /\ SIdle

DiskNext ==
    \/ \E st \in SavedStates : SaveOpen(st) /\ UNCHANGED <<qvars, pvars, hvars, tvars, svars, avars, xvars>>
    \/ SaveWrite /\ UNCHANGED <<qvars, pvars, hvars, tvars, svars, avars, xvars>>
    \/ SaveClose /\ UNCHANGED <<qvars, pvars, hvars, tvars, svars, avars, xvars>>
    \/ Restart /\ UNCHANGED <<qvars, pvars, hvars, tvars, svars, avars, xvars>>
    \/ Load /\ UNCHANGED <<qvars, pvars, hvars, tvars, svars, avars, xvars>>

DiskSpec == DiskInit /\ [][DiskNext]_vars

(***************************************************************************)
(* The state file with set_scheduler_enabled among its writers             *)
(***************************************************************************)
FlagInit == DiskInit

FlagNext ==
    \/ DiskNext
    \/ \E b \in BOOLEAN : SetSchedulerEnabledOp(b) /\ UNCHANGED <<qvars, pvars, hvars, tvars, svars, avars, xvars>>

FlagSpec == FlagInit /\ [][FlagNext]_vars

(***************************************************************************)
(* Publish requests against a remote session that can expire               *)
(***************************************************************************)
AuthInit ==
    /\ logged = FALSE
    /\ session \in BOOLEAN
    /\ calls = << >>
    /\ attempt = Attempt("idle", "photo_upload", "none", FALSE)
    /\ published = 0
    /\ DIdle /\ XIdle
    /\ QIdle /\ PIdle /\ HIdle /\ TIdle /\ SIdle

AuthNext ==
    \/ Expire /\ UNCHANGED <<qvars, pvars, hvars, tvars, svars, dvars, xvars>>
    \/ \E req \in Requests, loginOk \in BOOLEAN : EnsureLoggedIn(req, loginOk) /\ UNCHANGED <<qvars, pvars, hvars, tvars, svars, dvars, xvars>>
    \/ \E rejected \in BOOLEAN : Upload(rejected) /\ UNCHANGED <<qvars, pvars, hvars, tvars, svars, dvars, xvars>>

AuthSpec == AuthInit /\ [][AuthNext]_vars

(***************************************************************************)
(* The folder parser, applied to the folders of the model                  *)
(***************************************************************************)
ParserInit ==
    /\ dir \in Dirs
    /\ plast = PLast("init", TRUE, "single", << >>)
    /\ twin = << >>
    /\ uploads = << >>
    /\ DIdle /\ AIdle
    /\ QIdle /\ PIdle /\ HIdle /\ TIdle /\ SIdle

ParserNext ==
    \/ DetectTypeOp /\ UNCHANGED <<qvars, pvars, hvars, tvars, svars, dvars, avars, twin, uploads>>
    \/ \E pt \in PostTypes \cup {"none"} : GetSlidesOp(pt) /\ UNCHANGED <<qvars, pvars, hvars, tvars, svars, dvars, avars, twin, uploads>>
    \/ ParseOp /\ UNCHANGED <<qvars, pvars, hvars, tvars, svars, dvars, avars, twin, uploads>>

ParserSpec == ParserInit /\ [][ParserNext]_vars

(***************************************************************************)
(* Two queues over one content directory, each fed in its own order        *)
(***************************************************************************)
OrderInit ==
    /\ fs \in [Names -> {"absent", "pending"}]
    /\ queue = << >>
    /\ qlast = QLast("init", NoName, 0, TRUE, NoName)
    /\ dir = << >>
    /\ plast = PLast("init", TRUE, "single", << >>)
    /\ twin = << >>
    /\ uploads = << >>
    /\ DIdle /\ AIdle
    /\ PIdle /\ HIdle /\ TIdle /\ SIdle

OrderNext ==
    \/ Refresh /\ UNCHANGED <<pvars, hvars, tvars, svars, dvars, avars, xvars>>
    \/ \E f \in Names, p \in 0..MaxPriority : Enqueue(f, p) /\ UNCHANGED <<pvars, hvars, tvars, svars, dvars, avars, xvars>>
    \/ \E n \in Names, p \in 0..MaxPriority : SetPriority(n, p) /\ UNCHANGED <<pvars, hvars, tvars, svars, dvars, avars, xvars>>
    \/ TwinRefresh /\ UNCHANGED <<qvars, pvars, hvars, tvars, svars, dvars, avars>>
    \/ \E f \in Names, p \in 0..MaxPriority : TwinEnqueue(f, p) /\ UNCHANGED <<qvars, pvars, hvars, tvars, svars, dvars, avars>>
    \/ \E n \in Names, p \in 0..MaxPriority : TwinSetPriority(n, p) /\ UNCHANGED <<qvars, pvars, hvars, tvars, svars, dvars, avars>>

OrderSpec == OrderInit /\ [][OrderNext]_vars

(***************************************************************************)
(* Properties of the queue                                                 *)
(***************************************************************************)
\* (p1, n1) <= (p2, n2) for (priority, lower-cased folder name) pairs.
PairLeq(p1, n1, p2, n2) ==
    \/ p1 < p2
    \/ p1 = p2 /\ ~StrLess(Lower(n2), Lower(n1))

\* C1: dequeue() removes and returns the item whose (priority, lower-cased
\* folder name) pair is smallest among all tracked items (every pending folder
\* is tracked after the implicit refresh), and returns None only when no
\* pending folder exists.
C1_DequeueSmallest ==
    qlast.op = "dequeue" =>
        /\ qlast.ok =>
            /\ qlast.name \notin Folders(queue)
            /\ \A i \in 1..Len(queue) :
                   PairLeq(qlast.prio, qlast.name, queue[i].priority, queue[i].folder)
            /\ \A n \in Names :
                   IsValidContentFolder(fs, n) => n = qlast.name \/ n \in Folders(queue)
        /\ ~qlast.ok =>
            /\ queue = << >>
            /\ \A n \in Names : ~IsValidContentFolder(fs, n)

\* C1 witness: a dequeue returned a folder ahead of two others, one of them
\* with another priority and one with the same priority.
C1_Witness ==
    /\ qlast.op = "dequeue" /\ qlast.ok
    /\ Len(queue) = 2
    /\ queue[1].priority = qlast.prio
    /\ queue[2].priority > qlast.prio

\* C4: the queue holds at most one item per distinct folder.
C4_OneItemPerFolder ==
    \A i, j \in 1..Len(queue) : queue[i].folder = queue[j].folder => i = j

\* C4 witness: enqueue was called for a folder that was already tracked, in a
\* queue of several folders.
C4_Witness ==
    /\ qlast.op = "enqueue" /\ qlast.ok
    /\ Len(queue) >= 2

\* C5: if X is tracked when move_to_front(X) is called, X's priority becomes
\* strictly lower than every other item's and the next peek() returns X.
\* Stated here for an X whose folder is still on disk at the peek.
C5_MoveToFrontThenPeek ==
    /\ (qlast.op = "move_to_front" /\ qlast.ok) =>
           \A i, j \in 1..Len(queue) :
               (queue[i].folder = qlast.name /\ queue[j].folder # qlast.name)
                   => queue[i].priority < queue[j].priority
    /\ (qlast.op = "peek" /\ qlast.mtf # NoName /\ Exists(fs, qlast.mtf)) =>
           qlast.name = qlast.mtf

\* C6: a refresh that directly follows a refresh, with no change of the
\* directory in between, leaves the ordered list of (folder, priority) as it is.
C6_RefreshIdempotent ==
    [][(qlast.op = "refresh" /\ qlast'.op = "refresh") => queue' = queue]_vars

\* C6 witness: a second refresh in a row over a queue of several folders with
\* different priorities and with names that differ only in case.
C6_Witness ==
    /\ qlast.op = "refresh" /\ qlast.twice
    /\ Len(queue) = 3
    /\ \E i \in 1..3 : queue[i].priority # 0

(***************************************************************************)
(* Properties of the history file                                          *)
(***************************************************************************)
Min(a, b) == IF a < b THEN a ELSE b

\* C3: after n sequential add_to_history calls from an empty history the
\* stored history holds exactly min(n, 100) entries, newest first, and they are
\* the min(n, 100) most recently inserted ones.
C3_HistoryCap ==
    LET h == histFile.content IN
    /\ Len(h) = Min(hcount, HistoryCap)
    /\ \A i \in 1..Len(h) : h[i].timestamp = hcount - i + 1

(***************************************************************************)
(* Properties of the time-slot manager                                     *)
(***************************************************************************)
\* The times of day, in minutes, of the stored slots that parse.
SlotMinutes ==
    {MinuteOfDay(ParsedTime(times[i])) : i \in {j \in 1..Len(times) : IsValidTime(times[j])}}

MinOf(S) == CHOOSE m \in S : \A x \in S : m <= x

\* C7: get_next_slot returns the earliest configured slot instant strictly
\* after now (today's first slot later than now if there is one, otherwise
\* tomorrow's earliest slot), and None if and only if the slot list is empty.
C7_NextSlotEarliest ==
    tlast.op = "get_next_slot" =>
        /\ tlast.ret.kind = "none" <=> times = << >>
        /\ times # << >> =>
            /\ tlast.ret.kind = "slot"
            /\ LET later == {m \in SlotMinutes : m > tlast.now} IN
               IF later # {}
               THEN tlast.ret.day = 0 /\ tlast.ret.minute = MinOf(later)
               ELSE tlast.ret.day = 1 /\ tlast.ret.minute = MinOf(SlotMinutes)

\* "HH:MM": two digits, a colon, two digits, 00-23 and 00-59.
IsHHMM(s) ==
    /\ Len(s) = 5
    /\ s[3] = ":"
    /\ \A i \in {1, 2, 4, 5} : IsDigit(s[i])
    /\ IsValidTime(s)

\* C8: after construction and after any sequence of set_slots, add_slot and
\* remove_slot calls every stored slot string is a valid 24-hour "HH:MM" time
\* and the stored list is sorted ascending by time of day.
C8_SlotsValidSorted ==
    /\ \A i \in 1..Len(times) : IsHHMM(times[i])
    /\ \A i, j \in 1..Len(times) :
           i < j => MinuteOfDay(ParsedTime(times[i])) <= MinuteOfDay(ParsedTime(times[j]))

(***************************************************************************)
(* Properties of the publish paths                                         *)
(***************************************************************************)
\* C2: under any interleaving of the timer path (post_next) and the manual
\* path (post_now), a folder handed to one publish attempt is not handed to
\* another (by dequeue() or by name) while the first attempt is in progress.
C2_OneAttemptPerFolder ==
    \A t, u \in Paths :
        (t # u /\ task[t].pc # "idle" /\ task[u].pc # "idle")
            => task[t].folder # task[u].folder

\* C2 witness: the timer path is publishing a folder it dequeued, the folder is
\* still pending on disk and no longer tracked (a refresh would track it
\* again), and the manual path has completed a publish before.
C2_Witness ==
    /\ task["timer"].pc = "publish" /\ task["timer"].dequeued
    /\ IsValidContentFolder(fs, task["timer"].folder)
    /\ task["timer"].folder \notin Folders(queue)
    /\ task["manual"].outcome = "ok"

(***************************************************************************)
(* Properties of the scheduler                                             *)
(***************************************************************************)
\* C9: start() is a no-op when already Running; from Stopped it discards the
\* registered timers, registers one trigger per configured slot plus the sync
\* and keep-alive triggers, moves to Running and persists scheduler_enabled =
\* true (no slot trigger for an empty slot list).
C9_StartRegisters ==
    [][Start =>
           IF running
           THEN UNCHANGED <<running, engine, jobs, stateFile>>
           ELSE /\ running' /\ engine'
                /\ jobs' = {PostJob(times[i]) : i \in 1..Len(times)}
                               \cup {SyncJob, KeepAliveJob}
                /\ stateFile'.status = "ok" /\ stateFile'.enabled]_vars

\* C10: stop() is a no-op when already Stopped; from Running it deactivates
\* the engine, moves to Stopped and persists scheduler_enabled = false; a
\* trigger fires only while Running; Stopped (not running, engine inactive)
\* and Running (running, engine active) are the only states reached.
C10_StopDeactivates ==
    [][/\ Stop =>
              IF running
              THEN /\ ~running' /\ ~engine'
                   /\ stateFile'.status = "ok" /\ ~stateFile'.enabled
              ELSE UNCHANGED <<running, engine, jobs, stateFile>>
       /\ slast'.op = "fire" => running' /\ engine'
       /\ engine' = running']_vars

\* C10 witness: stop() has just taken a Running scheduler with slot triggers
\* to Stopped.
C10_Witness ==
    /\ slast.op = "stop" /\ ~slast.noop
    /\ ~running /\ ~engine
    /\ PostJob(T0900) \in jobs
    /\ stateFile.status = "ok" /\ ~stateFile.enabled

\* C11: after a successful update_times(T) the list T is persisted as
\* post_times; a scheduler that was Running is Running again with slot
\* triggers registered exactly for the times of T; a scheduler that was Stopped
\* stays Stopped, its engine inactive and no trigger registered by the call.
C11_UpdateTimesReregisters ==
    [][(slast'.op = "update_times" /\ slast'.ok /\ UpdateTimes(slast'.arg)) =>
           LET new == slast'.arg IN
           /\ stateFile'.status = "ok" /\ stateFile'.post_times = new
           /\ IF running
              THEN /\ running' /\ engine'
                   /\ {j \in jobs' : j.kind = "post"}
                          = {PostJob(new[i]) : i \in 1..Len(new)}
              ELSE ~running' /\ ~engine' /\ jobs' = jobs]_vars

\* C11 witness: update_times(["15:00"]) has just succeeded on a Running
\* scheduler: the 09:00 trigger is gone, the 15:00 one is registered.
C11_Witness ==
    /\ slast.op = "update_times" /\ slast.ok
    /\ running /\ engine
    /\ stateFile.post_times = <<T1500>>
    /\ PostJob(T1500) \in jobs /\ PostJob(T0900) \notin jobs

\* C12: update_times with a list holding an entry that is not a valid "HH:MM"
\* time fails and leaves the slot list, the persisted state, the registered
\* triggers and the Running/Stopped state as they were.
C12_InvalidTimesRejected ==
    [][\A new \in SlotLists :
           (UpdateTimes(new) /\ \E i \in 1..Len(new) : ~IsHHMM(new[i])) =>
               /\ ~slast'.ok
               /\ UNCHANGED <<times, stateFile, jobs, running, engine>>]_vars

\* C13: a publish attempt of a slot trigger that fails at any step (parse,
\* normalise, publish, archive, history write) is caught at the trigger
\* boundary: nothing is raised out of the trigger, the error callback branch
\* is taken, the scheduler stays Running with the same triggers registered,
\* and the event loop is free for the slot triggers that remain.
C13_TriggerFailureCaught ==
    [][(/\ task["timer"].pc # "idle"
        /\ task'["timer"].pc = "idle"
        /\ task'["timer"].outcome = "error") =>
           /\ task'["timer"].signal = "on_error"
           /\ running' /\ engine' /\ jobs' = jobs
           /\ loop' = "free"
           /\ \E j \in jobs' : j.kind = "post"]_vars

\* C13 witness: the only attempt so far, made by a slot trigger, published and
\* archived its folder and then failed at the history write.
C13_Witness ==
    /\ task["timer"].outcome = "error" /\ task["timer"].signal = "on_error"
    /\ task["manual"].outcome = "none"
    /\ Len(posts) = 1 /\ fs[posts[1]] = "posted"
    /\ histFile.status = "torn"
    /\ running /\ engine

\* C14: a slot trigger that finds the queue empty after refresh ends its
\* cycle with no side effect: no publish call, no folder moved, no history
\* entry, the persisted state as it was, no callback, the scheduler Running.
C14_EmptyQueueNoEffect ==
    [][(/\ task["timer"].pc = "idle" /\ qlast'.op = "dequeue" /\ ~qlast'.ok
        /\ \E j \in jobs : TimerBegin(j)) =>
           /\ UNCHANGED <<posts, fs, histFile, hcount, stateFile, jobs>>
           /\ task'["timer"].pc = "idle"
           /\ task'["timer"].signal = "none"
           /\ running' /\ engine']_vars

\* C14 witness: a slot trigger has just found the queue empty, after a
\* publish that emptied the content directory.
C14_Witness ==
    /\ slast.op = "fire" /\ slast.job.kind = "post"
    /\ task["timer"].pc = "idle" /\ task["timer"].outcome = "empty"
    /\ qlast.op = "dequeue" /\ ~qlast.ok
    /\ posts # << >>

\* C15: post_now(folder_name) goes on to classify and publish only when
\* folder_name names a folder the queue tracks, and otherwise fails with
\* SchedulerError; post_now() fails with SchedulerError on an empty queue.
C15_PostNowTrackedOnly ==
    [][\A fn \in Names \cup {NoName} :
           (/\ ManualBegin(fn)
            /\ IF fn = NoName THEN ~qlast'.ok ELSE fn \notin Folders(queue)) =>
               /\ task'["manual"].pc = "idle"
               /\ task'["manual"].signal = "raised"]_vars

(***************************************************************************)
(* Properties of the state file                                            *)
(***************************************************************************)
\* C16: save_state(s), a restart of the process and load_state() give back a
\* state with the post_times and the scheduler_enabled value of s.
C16_SaveLoadRoundTrip ==
    (dlast.op = "load" /\ save.done /\ save.restarted) =>
        /\ dlast.ok
        /\ dlast.ret.enabled = save.new.enabled
        /\ dlast.ret.post_times = save.new.post_times

\* C16 witness: a disabled scheduler and a time string holding a quote were
\* saved, the process restarted and the state loaded.
C16_Witness ==
    /\ dlast.op = "load" /\ save.done /\ save.restarted
    /\ ~save.new.enabled /\ save.new.post_times = <<<<"9", Tok.quote>>>>

\* C17: load_state never raises, and when the state file is missing or does
\* not hold a complete document it returns the default state:
\* scheduler_enabled = true and the configured post times.
C17_LoadDefaultsOnCorrupt ==
    dlast.op = "load" =>
        /\ dlast.ok
        /\ (~disk.exists \/ disk.text \notin {Encode(st) : st \in SavedStates})
               => dlast.ret = DefaultState(config)

\* C17 witness: load_state has read a file cut off part-way through the
\* post_times list and returned the default state.
C17_Witness ==
    /\ dlast.op = "load" /\ dlast.ok
    /\ disk.exists /\ Len(disk.text) > 8 /\ ~save.done
    /\ dlast.ret = DefaultState(config)

\* C18: save_state writes atomically: a load_state that runs after the
\* process terminated in the middle of a save_state returns the complete
\* previous state or the complete new one.
C18_SaveAtomic ==
    dlast.op = "load" => dlast.ret \in {save.old, save.new}

(***************************************************************************)
(* Properties of the publish request                                       *)
(***************************************************************************)
\* The positions of the upload requests among the remote requests made.
Uploads == {i \in 1..Len(calls) : calls[i] \in Requests}

\* C19: a publish request refused because the session expired is followed
\* by a re-login and exactly one retry of the same request; a request that
\* failed for another reason is not retried and triggers no re-login.
C19_AuthRetryOnce ==
    (attempt.pc = "idle" /\ attempt.outcome \in {"ok", "PostError"}) =>
        IF attempt.authfail \/ Cardinality(Uploads) > 1
        THEN /\ Cardinality(Uploads) = 2
             /\ \E i \in 1..Len(calls) :
                    /\ calls[i] = "login"
                    /\ \E u, v \in Uploads : u < i /\ i < v
        ELSE \A i \in 1..Len(calls) :
                 calls[i] = "login" => \A u \in Uploads : i < u

(***************************************************************************)
(* Properties of the publish paths: the history write                      *)
(***************************************************************************)
\* Number of remote publishes of folder f in a list of publishes.
Count(seq, f) == Cardinality({i \in 1..Len(seq) : seq[i] = f})

Named(word, d) == {i \in 1..Len(d) : d[i].is_file /\ StartsWith(d[i].name, word)}

\* The files of d whose name begins with a digit.
BareNumbered(d) == {i \in 1..Len(d) : d[i].is_file /\ IsDigit(Head(d[i].name))}

\* C21: detect_type gives Story when the folder holds at least one story-N
\* file, even next to slide-N files; otherwise Carousel when it holds two or
\* more slide-N or bare-number files; otherwise Single.
C21_DetectTypePriority ==
    plast.op = "detect_type" =>
        plast.type =
            IF Named(<<"s", "t", "o", "r", "y">>, dir) # {} THEN "story"
            ELSE IF Cardinality(Named(<<"s", "l", "i", "d", "e">>, dir)
                                    \cup BareNumbered(dir)) >= 2
                 THEN "carousel"
            ELSE "single"

\* detect_type answered Story for a folder that also holds two slide files.
C21_Witness ==
    /\ plast.op = "detect_type" /\ plast.type = "story"
    /\ Cardinality(Named(<<"s", "l", "i", "d", "e">>, dir)) >= 2

\* The number a pattern captures in a name.
IndexOf(name) == FirstMatch(SLIDE_PATTERNS \o STORY_PATTERNS, name)

\* C30: get_slides returns the named slides (or stories) in strictly
\* ascending order of their captured number: no two returned files share one.
C30_SlidesStrictlyAscending ==
    (/\ plast.op = "get_slides"
     /\ \A i \in 1..Len(plast.slides) : IndexOf(plast.slides[i]).ok) =>
        \A i, j \in 1..Len(plast.slides) :
            i < j => IndexOf(plast.slides[i]).number < IndexOf(plast.slides[j]).number

(***************************************************************************)
(* Properties of two queues over one directory                             *)
(***************************************************************************)
\* The (folder, priority) pairs a queue holds.
Pairs(q) == {q[i] : i \in 1..Len(q)}

\* C22: the queue order is determined by (priority, folder name) alone: two
\* queues holding the same set of (folder name, priority) pairs list them in
\* the same order, however each came to hold them.
C22_OrderDeterminedByKeys ==
    Pairs(queue) = Pairs(twin) => queue = twin

(***************************************************************************)
(* The frame of refresh                                                    *)
(***************************************************************************)
\* C29: refresh() adds one item with priority 0 for each pending folder not
\* yet tracked, removes exactly the items whose folder no longer exists, and
\* leaves the priority of every item that stays tracked as it was.
C29_RefreshFrame ==
    [][qlast'.op = "refresh" =>
          /\ Folders(queue') =
                 {n \in Folders(queue) : Exists(fs, n)}
                     \cup {n \in Names : IsValidContentFolder(fs, n)}
          /\ Len(queue') = Cardinality(Folders(queue'))
          /\ \A i \in 1..Len(queue') :
                 IF queue'[i].folder \in Folders(queue)
                 THEN queue'[i] \in Pairs(queue)
                 ELSE queue'[i].priority = 0]_vars

\* A refresh left a queue that tracks a folder with a priority of its own
\* next to one at the default priority, a folder holding no image among them.
C29_Witness ==
    /\ qlast.op = "refresh"
    /\ \E i, j \in 1..Len(queue) :
           /\ queue[i].priority # 0 /\ queue[j].priority = 0
           /\ fs[queue[i].folder] = "empty"
    /\ \E n \in Names : fs[n] = "absent"

(***************************************************************************)
(* Slot triggers and wall-clock times                                      *)
(***************************************************************************)
\* The slot triggers registered with the engine.
PostJobs == {j \in jobs : j.kind = "post"}

\* C23: for every slot list set_slots / update_times accepted, start()
\* registers exactly one slot trigger per distinct wall-clock time of day:
\* every slot has a trigger and no two triggers fire at the same time.
C23_OneTriggerPerTime ==
    (running /\ engine /\ slast.op \in {"start", "update_times"} /\ slast.ok) =>
        /\ \A i \in 1..Len(times) :
               \E j \in PostJobs :
                   MinuteOfDay(ParsedTime(j.time)) = MinuteOfDay(ParsedTime(times[i]))
        /\ \A j1, j2 \in PostJobs :
               MinuteOfDay(ParsedTime(j1.time)) = MinuteOfDay(ParsedTime(j2.time))
                   => j1 = j2

\* C24: after update_times(T) succeeded and the process was restarted, the
\* Time-Slot Manager holds T and start() has registered the slot triggers of
\* the persisted post_times T, not those of the configured defaults.
C24_TimesSurviveRestart ==
    [][(slast.op = "update_times" /\ slast.ok /\ slast'.op = "reboot") =>
          /\ times' = SortStrs(slast.arg)
          /\ {j \in jobs' : j.kind = "post"} =
                 {PostJob(slast.arg[i]) : i \in 1..Len(slast.arg)}]_vars

(***************************************************************************)
(* Properties of the publish paths: the order of the steps                 *)
(***************************************************************************)
\* C25: a folder whose scheduled publish fails with a content error on every
\* attempt does not block the folders behind it: under repeated slot
\* triggers every other pending valid folder is eventually published.
C25_BadFolderSkipped ==
    \A f \in Names \ BadFolders :
        IsValidContentFolder(fs, f) ~> InSeq(posts, f)

\* C26: a manual publish and a timer-triggered publish that both complete
\* leave both HistoryEntries in the history file, in the order the publishes
\* completed: every successful add_to_history puts its entry in front of
\* all the entries the file held just before the write.
C26_NoLostHistoryUpdate ==
    [][\A t \in Paths :
           (task[t].pc = "record" /\ task'[t].pc = "idle" /\ task'[t].outcome = "ok") =>
               /\ histFile'.status = "ok"
               /\ Head(histFile'.content).folder = task[t].folder
               /\ Tail(histFile'.content) = GetHistory(histFile, DefaultLimit)]_vars

\* Both paths completed a publish and the file holds the two entries.
C26_Witness ==
    /\ task["timer"].outcome = "ok" /\ task["manual"].outcome = "ok"
    /\ histFile.status = "ok" /\ Len(histFile.content) = 2
    /\ histFile.content[1].folder # histFile.content[2].folder
    /\ histFile.content[1].timestamp > histFile.content[2].timestamp

\* The order of the steps of post_folder and _post_folder_sync.
StepOrder ==
    { <<"idle", "parse">>, <<"parse", "publish">>, <<"publish", "archive">>,
      <<"archive", "read">>, <<"read", "record">> }

\* The type and the slide count of the folders of the model: "a" holds two
\* slides, "A" a story of two images, "b" a single image.
Expected(f) ==
    IF f = <<"a">> THEN [type |-> "carousel", slides |-> 2]
    ELSE IF f = <<"A">> THEN [type |-> "story", slides |-> 2]
    ELSE [type |-> "single", slides |-> 1]

\* C27: both publish paths run parse and normalize, publish, the move to the
\* posted archive and the history write in that order; a successful attempt
\* prepends exactly one HistoryEntry {folder name, detected type, slide
\* count, result}, and only after the remote publish and the move succeeded.
C27_StepsInOrder ==
    [][/\ \A t \in Paths :
              /\ task'[t].pc # task[t].pc =>
                     task'[t].pc = "idle" \/ <<task[t].pc, task'[t].pc>> \in StepOrder
              /\ (task[t].pc # "idle" /\ task'[t].pc = "idle" /\ task'[t].outcome = "ok") =>
                     /\ task[t].pc = "record"
                     /\ hcount' = hcount + 1
                     /\ Len(histFile'.content) = Len(GetHistory(histFile, DefaultLimit)) + 1
       /\ posts' # posts =>
              \E t \in Paths : task[t].pc = "publish" /\ posts' = Append(posts, task[t].folder)
       /\ histFile' # histFile =>
              \E t \in Paths :
                  /\ task[t].pc = "record"
                  /\ posts[task[t].result] = task[t].folder
                  /\ fs[task[t].folder] = "posted"
                  /\ histFile'.status = "ok" =>
                         LET e == Head(histFile'.content) IN
                         /\ e.folder = task[t].folder
                         /\ e.type = Expected(e.folder).type
                         /\ e.slides = Expected(e.folder).slides
                         /\ e.result = task[t].result]_vars

\* The manual path published, moved and recorded the carousel folder, after
\* the timer path had done the same with another folder.
C27_Witness ==
    /\ task["manual"].outcome = "ok" /\ task["timer"].outcome = "ok"
    /\ histFile.status = "ok" /\ Len(histFile.content) = 2
    /\ histFile.content[1].folder = <<"a">>
    /\ histFile.content[1].type = "carousel" /\ histFile.content[1].result = 2
    /\ fs[<<"a">>] = "posted"

\* C28: if the remote publish succeeds and the move to the archive fails,
\* the folder stays in the content directory, no HistoryEntry is appended,
\* the attempt is reported as a failure, and the next refresh of the queue
\* tracks the folder again, so that a later trigger can publish it again.
C28_ArchiveFailureRepublish ==
    [][\A t \in Paths :
           /\ (task[t].pc = "archive" /\ task'[t].pc = "idle") =>
                  /\ IsValidContentFolder(fs', task[t].folder)
                  /\ UNCHANGED <<histFile, hcount>>
                  /\ task'[t].outcome = "error"
                  /\ task'[t].signal = (IF t = "timer" THEN "on_error" ELSE "raised")
           /\ (/\ task[t].pc = "idle" /\ qlast'.op = "dequeue"
               /\ IF t = "timer" THEN \E j \in jobs : TimerBegin(j)
                                 ELSE ManualBegin(NoName)) =>
                  \A f \in Names :
                      (InSeq(posts, f) /\ IsValidContentFolder(fs, f)) =>
                          f \in Folders(queue') \cup {qlast'.name}]_vars

\* A folder was published twice: the move failed after the first publish,
\* a later attempt took the folder again, published, moved and recorded it.
C28_Witness ==
    /\ Len(posts) = 2 /\ posts[1] = posts[2]
    /\ fs[posts[1]] = "posted"
    /\ histFile.status = "ok" /\ Len(histFile.content) = 1
    /\ histFile.content[1].result = 2

\* C31: when a step of post_folder / _post_folder_sync fails before the
\* remote publish has succeeded (parse, normalize, login or the publish
\* call), no HistoryEntry is appended, the folder stays in the content
\* directory, the persisted scheduler state is unchanged, and the failure
\* reaches the caller as one SchedulerError.
C31_FailureBeforePublish ==
    [][\A t \in Paths :
           (task[t].pc \in {"parse", "publish"} /\ task'[t].pc = "idle") =>
               /\ task'[t].outcome = "error"
               /\ task'[t].signal = (IF t = "timer" THEN "on_error" ELSE "raised")
               /\ UNCHANGED <<histFile, hcount, fs, posts, stateFile>>]_vars

\* The manual path took a folder from the queue and failed before anything
\* was published; the folder is still pending and the history is empty.
C31_Witness ==
    /\ task["manual"].outcome = "error" /\ task["manual"].signal = "raised"
    /\ task["timer"].outcome = "none"
    /\ qlast.op = "dequeue" /\ qlast.ok /\ fs[qlast.name] = "pending"
    /\ posts = << >> /\ histFile.status = "missing"

\* C33: each image of a story folder is published as a story at most once
\* over all the publish attempts for that folder: when the k-th upload
\* fails, a later trigger does not upload the first k-1 images again.
C33_StoryImageOnce ==
    \A i, j \in 1..Len(uploads) : i # j => uploads[i] # uploads[j]

(***************************************************************************)
(* Properties of the queue: priorities and tracked folders                 *)
(***************************************************************************)
\* The priority of the item the queue holds for folder f.
PriorityOf(q, f) ==
    q[CHOOSE i \in 1..Len(q) : q[i].folder = f].priority

\* C32: a priority given to a folder stays in effect while the folder is
\* pending: when the folder was dequeued, its publish failed (it is still in
\* the content directory) and the next refresh tracks it again, it has the
\* priority it was dequeued with.
C32_PriorityOutlivesDequeue ==
    [][(/\ qlast.op = "dequeue" /\ qlast.ok /\ qlast'.op = "refresh"
        /\ IsValidContentFolder(fs, qlast.name)) =>
           /\ qlast.name \in Folders(queue')
           /\ PriorityOf(queue', qlast.name) = qlast.prio]_vars

\* C38: after every refresh() the folders the queue tracks are exactly the
\* valid pending content folders on disk, whatever was enqueued before and
\* whatever files were removed from tracked folders.
C38_RefreshTracksPending ==
    [][qlast'.op = "refresh" =>
           Folders(queue') = {n \in Names : IsValidContentFolder(fs', n)}]_vars

(***************************************************************************)
(* Properties of the scheduler under the administrative routes             *)
(***************************************************************************)
\* The times a list of time strings denotes, in minutes since midnight.
TimeSet(ts) == {MinuteOfDay(ParsedTime(ts[i])) : i \in 1..Len(ts)}

\* C34: after every completed start(), stop(), toggle, update_times() or
\* reset-state, the persisted scheduler_enabled flag (what get_status reports
\* as "enabled") equals the running flag.
C34_EnabledMatchesRunning ==
    (slast.op \in {"start", "stop", "toggle", "update_times", "reset_state"} /\ slast.ok) =>
        LoadState(stateFile, config).enabled = running

\* C35: after update_times (succeeding or failing) and reset-state, the slot
\* list of the Time-Slot Manager, the persisted post_times and, while
\* running, the registered slot triggers describe the same set of times.
C35_TimesAgree ==
    slast.op \in {"update_times", "reset_state"} =>
        /\ TimeSet(LoadState(stateFile, config).post_times) = TimeSet(times)
        /\ running =>
               {MinuteOfDay(ParsedTime(j.time)) : j \in {k \in jobs : k.kind = "post"}}
                   = TimeSet(times)

\* C36: set_scheduler_enabled(b) changes only the scheduler_enabled field
\* of the persisted state: whatever the condition of the state file, the
\* post_times persisted after the call are those saved before it (those of
\* the last save_state call made, or those the file held before that call).
C36_SetEnabledKeepsTimes ==
    [][dlast'.op = "set_scheduler_enabled" =>
           LoadDisk(disk', config).state.post_times
               \in {save.old.post_times, save.new.post_times}]_vars

(***************************************************************************)
(* Properties of what is published for a parsed folder                     *)
(***************************************************************************)
\* C37: a folder classified as single is published as exactly one image
\* through the single-photo upload, and its HistoryEntry has slide count 1
\* (the length of the slide list parse returned); a folder classified as
\* carousel is published as one album of 2 to 10 images.
C37_SingleIsOnePhoto ==
    (plast.op = "parse" /\ plast.ok) =>
        /\ plast.type = "single" =>
               /\ Len(plast.slides) = 1
               /\ CarouselRequest(plast.slides) = "photo_upload"
        /\ plast.type = "carousel" =>
               /\ Len(plast.slides) \in 2..MAX_CAROUSEL_IMAGES
               /\ CarouselRequest(plast.slides) = "album_upload"

(***************************************************************************)
(* Properties of the posted archive                                        *)
(***************************************************************************)
\* C39: once a folder was published and moved to the posted archive, no
\* remote sync, clean-up of the archive or refresh of the queue makes a
\* folder of that name pending again.
C39_PostedNeverPendingAgain ==
    [][\A f \in Names :
           (InSeq(posts, f) /\ fs[f] # "pending") => fs'[f] # "pending"]_vars

====
